---- MODULE Spec2Model ----
(***************************************************************************)
(* Model of the hybrid retrieval core of the financial RAG chatbot:        *)
(*   query_router.py  QueryRouter (classification, aggregation, report)    *)
(*   retrieval.py     RetrievalPipeline, HybridRetrievalPipeline           *)
(*   data_processor.py DataProcessor.clean_data                            *)
(*   vector_db.py     VectorDatabase.query, query_both_namespaces          *)
(*   llm_handler.py   LLMHandler, RAGPipeline, HybridRAGPipeline,          *)
(*                    sanitize_text_for_json                               *)
(*                                                                         *)
(* Text is a sequence of one-character strings.  Money is an integer       *)
(* number of mills (1/1000 of a dollar), so that the two-decimal rendering *)
(* of the report is a real rounding.  Similarity scores are integers in    *)
(* hundredths.  A Python dict is an ordered sequence of <<key, value>>.    *)
(***************************************************************************)
EXTENDS Integers, Sequences, FiniteSets, TLC

VARIABLES
    pc,          \* position of the call being modelled
    question,    \* the question text (sequence of characters)
    queryType,   \* result of classify_query_type, "" before it ran
    holdings,    \* holdings_df: [cols, rows]
    trades,      \* trades_df: [cols, rows]
    stats,       \* dict returned by compute_fund_aggregations (key -> dict)
    context,     \* returned context: None, or Some(sequence of rendered lines)
    error,       \* returned error message: None, or Some(text)
    calls,       \* callees invoked by retrieve_context, in order
    raised,      \* callees whose call ended in an exception
    results,     \* matches handed to validate_retrieval / returned by search
    minScore,    \* min_score argument of validate_retrieval
    minChunks,   \* min_chunks argument of validate_retrieval
    valid,       \* first component returned by validate_retrieval
    pipeline,    \* whose query() runs: "hybrid", "rag", "" when none does
    client,      \* LLMHandler.client is set (an API key was configured)
    response,    \* outcome of the generation call: None before it
    result,      \* dict returned by query(): None before it returns
    dedupOut,    \* list returned by deduplicate_chunks
    text,        \* argument of sanitize_text_for_json
    sanitized,   \* value returned by sanitize_text_for_json
    prompt,      \* prompt handed to the generation service: None before
    classification, \* (filters, namespace) returned by classify_query
    chunkArgs,   \* arguments of chunk_by_fund
    fundChunks,  \* list returned by chunk_by_fund
    rag_pipeline,          \* app.py global: None, or Some(pipeline)
    initialization_error,  \* app.py global: None, or Some(message)
    reply        \* what an endpoint of app.py answered: None before

\* the state of the generation side and of the two text helpers
llmVars == <<pipeline, client, response, result, dedupOut, text, sanitized>>

\* prompt selection, pre-filter classification, chunking, the web app
auxVars == <<prompt, classification, chunkArgs, fundChunks, rag_pipeline,
             initialization_error, reply>>

vars == <<pc, question, queryType, holdings, trades, stats, context, error,
          calls, raised, results, minScore, minChunks, valid, pipeline,
          client, response, result, dedupOut, text, sanitized, prompt,
          classification, chunkArgs, fundChunks, rag_pipeline,
          initialization_error, reply>>

\* Optional values: Python's None and a present value
None == <<>>
Some(x) == <<x>>

NaN == "NaN"
NO_DATA == "Sorry, I cannot find the answer in the provided data"

(***************************************************************************)
(* Bounds                                                                  *)
(***************************************************************************)
MaxFrags == 3
MaxHoldings == 3
MaxTrades == 2
MaxMatches == 4
MaxHybridRows == 1

(***************************************************************************)
(* Text helpers: str.lower(), substring test, concatenation               *)
(***************************************************************************)
UpperOf == [c \in {"a", "b", "c", "d", "e", "f", "g", "h", "i", "j", "k", "l",
                    "m", "n", "o", "p", "q", "r", "s", "t", "u", "v", "w", "x",
                    "y", "z"} |->
    CASE c = "a" -> "A" [] c = "b" -> "B" [] c = "c" -> "C" [] c = "d" -> "D"
      [] c = "e" -> "E" [] c = "f" -> "F" [] c = "g" -> "G" [] c = "h" -> "H"
      [] c = "i" -> "I" [] c = "j" -> "J" [] c = "k" -> "K" [] c = "l" -> "L"
      [] c = "m" -> "M" [] c = "n" -> "N" [] c = "o" -> "O" [] c = "p" -> "P"
      [] c = "q" -> "Q" [] c = "r" -> "R" [] c = "s" -> "S" [] c = "t" -> "T"
      [] c = "u" -> "U" [] c = "v" -> "V" [] c = "w" -> "W" [] c = "x" -> "X"
      [] c = "y" -> "Y" [] c = "z" -> "Z"]

LowerChar(c) ==
    IF \E l \in DOMAIN UpperOf : UpperOf[l] = c
    THEN CHOOSE l \in DOMAIN UpperOf : UpperOf[l] = c
    ELSE c

UpperChar(c) == IF c \in DOMAIN UpperOf THEN UpperOf[c] ELSE c

\* str.lower()
Lower(s) == [i \in 1..Len(s) |-> LowerChar(s[i])]

\* str.upper(), used to build the letter-case variants of a question
Upper(s) == [i \in 1..Len(s) |-> UpperChar(s[i])]

\* Python's `sub in s`
Contains(sub, s) ==
    \E a \in 1..(Len(s) - Len(sub) + 1) :
        \A k \in 1..Len(sub) : s[a + k - 1] = sub[k]

(***************************************************************************)
(* QueryRouter.classify_query_type                                         *)
(***************************************************************************)
DOTSTAR == ".*"
AMP_OR_SLASH == "[&/]"

aggregation_patterns == <<
    <<"w","h","i","c","h"," ","f","u","n","d", DOTSTAR, "b","e","s","t">>,
    <<"w","h","i","c","h"," ","f","u","n","d", DOTSTAR,
      "p","e","r","f","o","r","m","e","d">>,
    <<"w","h","i","c","h"," ","f","u","n","d", DOTSTAR, "b","e","t","t","e","r">>,
    <<"c","o","m","p","a","r","e", DOTSTAR, "f","u","n","d","s">>,
    <<"t","o","p", DOTSTAR, "f","u","n","d","s">>,
    <<"r","a","n","k", DOTSTAR, "f","u","n","d","s">>,
    <<"a","l","l"," ","f","u","n","d","s">>,
    <<"f","u","n","d"," ","p","e","r","f","o","r","m","a","n","c","e">>,
    <<"b","e","s","t", DOTSTAR, "y","e","a","r","l","y", DOTSTAR,
      "p", AMP_OR_SLASH, "l">>,
    <<"h","i","g","h","e","s","t", DOTSTAR, "p", AMP_OR_SLASH, "l">>,
    <<"l","o","w","e","s","t", DOTSTAR, "p", AMP_OR_SLASH, "l">>,
    <<"f","u","n","d","s", DOTSTAR, "b","e","t","t","e","r">>,
    <<"f","u","n","d","s", DOTSTAR, "w","o","r","s","e">>,
    <<"t","o","t","a","l", DOTSTAR, "a","l","l"," ","f","u","n","d","s">>,
    <<"a","g","g","r","e","g","a","t","e", DOTSTAR, "f","u","n","d","s">> >>

\* one pattern element against one character
ElemMatches(e, c) ==
    IF e = AMP_OR_SLASH THEN c \in {"&", "/"} ELSE e = c

\* the regex engine: does pattern p from element i match s starting at j.
\* `.` matches any character but a newline; `*` is greedy with backtracking,
\* which for a yes/no search is any split.
RECURSIVE MatchFrom(_, _, _, _)
MatchFrom(p, i, s, j) ==
    IF i > Len(p) THEN TRUE
    ELSE IF p[i] = DOTSTAR
    THEN \E k \in j..(Len(s) + 1) :
            /\ \A m \in j..(k - 1) : s[m] # "\n"
            /\ MatchFrom(p, i + 1, s, k)
    ELSE /\ j <= Len(s)
         /\ ElemMatches(p[i], s[j])
         /\ MatchFrom(p, i + 1, s, j + 1)

\* re.search(pattern, text)
re_search(p, s) == \E j \in 1..(Len(s) + 1) : MatchFrom(p, 1, s, j)

\* the `for pattern in aggregation_patterns` loop, first match returns
RECURSIVE ClassifyLoop(_, _)
ClassifyLoop(i, query_lower) ==
    IF i > Len(aggregation_patterns) THEN "specific"
    ELSE IF re_search(aggregation_patterns[i], query_lower) THEN "aggregation"
    ELSE ClassifyLoop(i + 1, query_lower)

\* a classifier that forgets to lower-case the question
classify_query_type_nolower(query) == ClassifyLoop(1, query)

classify_query_type(query) == ClassifyLoop(1, Lower(query))

(***************************************************************************)
(* Questions put to the router: up to MaxFrags fragments glued together,   *)
(* written in lower case, upper case or capitalised.                       *)
(***************************************************************************)
Fragments == {
    <<"w","h","i","c","h"," ","f","u","n","d">>,
    <<" ","b","e","s","t">>,
    <<"\n">>,
    <<"a","l","l"," ","f","u","n","d","s">>,
    <<"t","o","p">>,
    <<" ","f","u","n","d"," ">>,
    <<"h","i","g","h","e","s","t"," ","y","e","a","r","l","y">>,
    <<" ","p","&","l">>,
    <<"p","e","r","f","o","r","m","a","n","c","e">> }

LetterCases == {"lower", "upper", "capitalised"}

Capitalise(f) == [i \in 1..Len(f) |-> IF i = 1 THEN UpperChar(f[i]) ELSE f[i]]

InCase(f, lc) ==
    CASE lc = "lower" -> f
      [] lc = "upper" -> Upper(f)
      [] lc = "capitalised" -> Capitalise(f)

RECURSIVE Glue(_, _)
Glue(fs, lc) ==
    IF fs = <<>> THEN <<>> ELSE InCase(Head(fs), lc) \o Glue(Tail(fs), lc)

FragmentLists == UNION {[1..n -> Fragments] : n \in 0..MaxFrags}

RouterQuestions == {Glue(fs, lc) : fs \in FragmentLists, lc \in LetterCases}

(***************************************************************************)
(* The tabular dataset.  A frame is [cols, rows]; a raw cell of a numeric  *)
(* column is [num, v]: a number v, or (num = FALSE) a missing or           *)
(* non-numeric entry; a categorical cell is a string or NaN.               *)
(***************************************************************************)
HoldingsColumns == {"PortfolioName", "PL_YTD", "PL_QTD", "PL_MTD", "PL_DTD"}
TradesColumns == {"PortfolioName", "TradeTypeName", "TotalCash"}

Num(v) == [num |-> TRUE, v |-> v]
NotANumber == [num |-> FALSE, v |-> 0]

HoldingsPool == {
    [PortfolioName |-> "Alpha", PL_YTD |-> Num(1004), PL_QTD |-> Num(10),
     PL_MTD |-> Num(0), PL_DTD |-> Num(0)],
    [PortfolioName |-> "Alpha", PL_YTD |-> Num(-300), PL_QTD |-> NotANumber,
     PL_MTD |-> Num(0), PL_DTD |-> Num(0)],
    [PortfolioName |-> "Beta", PL_YTD |-> Num(704), PL_QTD |-> Num(0),
     PL_MTD |-> Num(0), PL_DTD |-> Num(0)],
    [PortfolioName |-> "Gamma", PL_YTD |-> NotANumber, PL_QTD |-> Num(0),
     PL_MTD |-> Num(0), PL_DTD |-> Num(0)],
    [PortfolioName |-> NaN, PL_YTD |-> Num(2000), PL_QTD |-> Num(0),
     PL_MTD |-> Num(0), PL_DTD |-> Num(0)] }

TradesPool == {
    [PortfolioName |-> "Alpha", TradeTypeName |-> "Buy", TotalCash |-> Num(500)],
    [PortfolioName |-> "Delta", TradeTypeName |-> NaN, TotalCash |-> NotANumber] }

HoldingsColumnSets == {HoldingsColumns, HoldingsColumns \ {"PL_QTD"}}
TradesColumnSets == {TradesColumns, TradesColumns \ {"TradeTypeName"},
                     TradesColumns \ {"TotalCash"}}

RawHoldings ==
    {[cols |-> c, rows |-> r] :
        c \in HoldingsColumnSets,
        r \in UNION {[1..n -> HoldingsPool] : n \in 0..MaxHoldings}}

RawTrades ==
    {[cols |-> c, rows |-> r] :
        c \in TradesColumnSets,
        r \in UNION {[1..n -> TradesPool] : n \in 0..MaxTrades}}

(***************************************************************************)
(* DataProcessor.clean_data                                                *)
(***************************************************************************)
\* pd.to_numeric(errors='coerce').fillna(0), applied `if col in df.columns`;
\* the cell of a column the frame does not have is never read
to_numeric(df, col, cell) ==
    IF col \in df.cols /\ cell.num THEN cell.v ELSE 0

\* fillna({col: 'Unknown'})
fillna_unknown(v) == IF v = NaN THEN "Unknown" ELSE v

\* holdings part: PortfolioName is not among the filled columns
clean_holdings(df) ==
    [cols |-> df.cols,
     rows |-> [i \in 1..Len(df.rows) |->
        [PortfolioName |-> df.rows[i].PortfolioName,
         PL_YTD |-> to_numeric(df, "PL_YTD", df.rows[i].PL_YTD),
         PL_QTD |-> to_numeric(df, "PL_QTD", df.rows[i].PL_QTD),
         PL_MTD |-> to_numeric(df, "PL_MTD", df.rows[i].PL_MTD),
         PL_DTD |-> to_numeric(df, "PL_DTD", df.rows[i].PL_DTD)]]]

\* trades part
clean_trades(df) ==
    [cols |-> df.cols,
     rows |-> [i \in 1..Len(df.rows) |->
        [PortfolioName |-> df.rows[i].PortfolioName,
         TradeTypeName |-> IF "TradeTypeName" \in df.cols
                           THEN fillna_unknown(df.rows[i].TradeTypeName)
                           ELSE NaN,
         TotalCash |-> to_numeric(df, "TotalCash", df.rows[i].TotalCash)]]]

(***************************************************************************)
(* pandas pieces used by compute_fund_aggregations                         *)
(***************************************************************************)
\* group keys come out sorted; rows whose key is NaN are dropped (dropna)
FundOrder == <<"Alpha", "Beta", "Delta", "Gamma", "Unknown">>
TypeOrder == <<"Buy", "Sell", "Unknown">>

GroupKeys(df) ==
    SelectSeq(FundOrder, LAMBDA f : \E i \in 1..Len(df.rows) :
                                        df.rows[i].PortfolioName = f)

RowsOf(df, f) == SelectSeq(df.rows, LAMBDA r : r.PortfolioName = f)

RECURSIVE SumCol(_, _)
SumCol(rows, col) ==
    IF rows = <<>> THEN 0 ELSE Head(rows)[col] + SumCol(Tail(rows), col)

\* a group total that keeps only the last row of each group
groupby_sum_lastrow(df, col) ==
    LET keys == GroupKeys(df)
    IN  [i \in 1..Len(keys) |->
            <<keys[i], RowsOf(df, keys[i])[Len(RowsOf(df, keys[i]))][col]>>]

\* groupby('PortfolioName')[col].sum().to_dict()
groupby_sum(df, col) ==
    LET keys == GroupKeys(df)
    IN  [i \in 1..Len(keys) |-> <<keys[i], SumCol(RowsOf(df, keys[i]), col)>>]

\* groupby('PortfolioName').size().to_dict()
groupby_size(df) ==
    LET keys == GroupKeys(df)
    IN  [i \in 1..Len(keys) |-> <<keys[i], Len(RowsOf(df, keys[i]))>>]

\* groupby('PortfolioName')[col].mean().to_dict(): the mean as sum over count
groupby_mean(df, col) ==
    LET keys == GroupKeys(df)
    IN  [i \in 1..Len(keys) |->
            <<keys[i], [sum |-> SumCol(RowsOf(df, keys[i]), col),
                        count |-> Len(RowsOf(df, keys[i]))]>>]

Permuted(d, perm) == [i \in 1..Len(d) |-> d[perm[i]]]

NonIncreasing(d) == \A i, j \in 1..Len(d) : i < j => d[i][2] >= d[j][2]

\* Series.sort_values(ascending=False): the default sort is not stable, so
\* entries with equal values may come out in any order
sort_values_descending(d) ==
    {Permuted(d, perm) : perm \in {q \in Permutations(1..Len(d)) :
                                        NonIncreasing(Permuted(d, q))}}

\* groupby(['PortfolioName','TradeTypeName']).size().unstack(fill_value=0)
\* .to_dict(): one entry per trade type, each a dict over all funds
trade_types_table(df) ==
    LET keys == GroupKeys(df)
        types == SelectSeq(TypeOrder, LAMBDA t :
                    \E i \in 1..Len(df.rows) :
                        /\ df.rows[i].TradeTypeName = t
                        /\ df.rows[i].PortfolioName # NaN)
    IN  [n \in 1..Len(types) |->
            <<types[n],
              [i \in 1..Len(keys) |->
                 <<keys[i],
                   Len(SelectSeq(RowsOf(df, keys[i]),
                                 LAMBDA r : r.TradeTypeName = types[n]))>>]>>]

(***************************************************************************)
(* QueryRouter.compute_fund_aggregations                                   *)
(***************************************************************************)
\* a column lookup on a frame that lacks the column raises KeyError
holdings_raise(h) ==
    ~ ({"PortfolioName", "PL_YTD", "PL_QTD", "PL_MTD", "PL_DTD"} \subseteq h.cols)

trades_raise(t) == ~ ({"PortfolioName", "TotalCash"} \subseteq t.cols)

\* the holdings block: skipped for an empty frame
holdings_aggregations(h) ==
    IF Len(h.rows) > 0
    THEN {("pl_ytd_by_fund" :> pl)
            @@ ("holdings_count" :> groupby_size(h))
            @@ ("avg_pl_ytd" :> groupby_mean(h, "PL_YTD"))
            @@ ("pl_metrics" :> << <<"PL_YTD", groupby_sum(h, "PL_YTD")>>,
                                   <<"PL_QTD", groupby_sum(h, "PL_QTD")>>,
                                   <<"PL_MTD", groupby_sum(h, "PL_MTD")>>,
                                   <<"PL_DTD", groupby_sum(h, "PL_DTD")>> >>) :
            pl \in sort_values_descending(groupby_sum(h, "PL_YTD"))}
    ELSE {<<>>}

\* the trades block; the buy/sell split alone sits in a try/except
trades_aggregations(t) ==
    IF Len(t.rows) > 0
    THEN ("trade_count" :> groupby_size(t))
            @@ ("trade_types" :> IF "TradeTypeName" \in t.cols
                                 THEN trade_types_table(t)
                                 ELSE <<>>)
            @@ ("total_cash" :> groupby_sum(t, "TotalCash"))
    ELSE <<>>

\* the possible outcomes of the call: an exception, or a stats dict
compute_fund_aggregations(h, t) ==
    IF \/ Len(h.rows) > 0 /\ holdings_raise(h)
       \/ Len(t.rows) > 0 /\ trades_raise(t)
    THEN {[raised |-> TRUE, stats |-> <<>>]}
    ELSE {[raised |-> FALSE, stats |-> hs @@ trades_aggregations(t)] :
            hs \in holdings_aggregations(h)}

(***************************************************************************)
(* QueryRouter.format_aggregation_context                                  *)
(***************************************************************************)
\* one rendered line of the context
Line(kind, rank, fund, value) ==
    [kind |-> kind, rank |-> rank, fund |-> fund, value |-> value]

\* f"{x:,.2f}": mills rendered as cents, rounded to nearest (ties to even)
fmt_money(m) ==
    LET q == m \div 10
        r == m % 10
    IN  IF r < 5 THEN q
        ELSE IF r > 5 THEN q + 1
        ELSE IF q % 2 = 0 THEN q ELSE q + 1

\* the same sort without reverse=True
sorted_by_value_ascending(d) ==
    LET pos(k) == 1 + Cardinality({m \in 1..Len(d) :
                        \/ d[m][2] < d[k][2]
                        \/ d[m][2] = d[k][2] /\ m < k})
    IN  [i \in 1..Len(d) |-> d[CHOOSE k \in 1..Len(d) : pos(k) = i]]

\* the sort followed by a top-2 cut, as a top-k retrieval would do
sorted_by_value_top2(d) ==
    LET pos(k) == 1 + Cardinality({m \in 1..Len(d) :
                        \/ d[m][2] > d[k][2]
                        \/ d[m][2] = d[k][2] /\ m < k})
        n == IF Len(d) < 2 THEN Len(d) ELSE 2
    IN  [i \in 1..n |-> d[CHOOSE k \in 1..Len(d) : pos(k) = i]]

\* sorted(d.items(), key=lambda x: x[1], reverse=True): stable, so entries
\* with equal values keep their order in the dict
sorted_by_value(d) ==
    LET pos(k) == 1 + Cardinality({m \in 1..Len(d) :
                        \/ d[m][2] > d[k][2]
                        \/ d[m][2] = d[k][2] /\ m < k})
    IN  [i \in 1..Len(d) |-> d[CHOOSE k \in 1..Len(d) : pos(k) = i]]

\* `key in stats and stats[key]`
has_entries(st, key) == key \in DOMAIN st /\ st[key] # <<>>

\* the numbered yearly P&L ranking and the "Total Funds: N" line
ranking_section(st) ==
    IF has_entries(st, "pl_ytd_by_fund")
    THEN LET pl_sorted == sorted_by_value(st["pl_ytd_by_fund"])
         IN  <<Line("pl_title", 0, "", 0), Line("pl_all_funds", 0, "", 0)>>
             \o [i \in 1..Len(pl_sorted) |->
                    Line("rank", i, pl_sorted[i][1], fmt_money(pl_sorted[i][2]))]
             \o <<Line("total_funds", 0, "", Len(pl_sorted))>>
    ELSE <<>>

\* "Holdings Count by Fund" and "Trade Count by Fund"
count_section(st, key, title, kind) ==
    IF has_entries(st, key)
    THEN LET srt == sorted_by_value(st[key])
         IN  <<Line(title, 0, "", 0)>>
             \o [i \in 1..Len(srt) |-> Line(kind, 0, srt[i][1], srt[i][2])]
    ELSE <<>>

TOTAL == <<"t","o","t","a","l">>
CASH == <<"c","a","s","h">>

\* `'total' in query.lower() and 'cash' in query.lower()`
wants_cash(query) ==
    Contains(TOTAL, Lower(query)) /\ Contains(CASH, Lower(query))

\* "Total Cash by Fund"
cash_section(st, query) ==
    IF wants_cash(query) /\ has_entries(st, "total_cash")
    THEN LET srt == sorted_by_value(st["total_cash"])
         IN  <<Line("cash_title", 0, "", 0)>>
             \o [i \in 1..Len(srt) |->
                    Line("cash", 0, srt[i][1], fmt_money(srt[i][2]))]
    ELSE <<>>

NO_AGGREGATION_DATA == <<Line("no_aggregation_data", 0, "", 0)>>

format_aggregation_context(st, query) ==
    LET context_parts ==
            ranking_section(st)
            \o count_section(st, "holdings_count", "holdings_title", "holdings")
            \o count_section(st, "trade_count", "trades_title", "trades")
            \o cash_section(st, query)
    IN  IF context_parts = <<>> THEN NO_AGGREGATION_DATA ELSE context_parts

(***************************************************************************)
(* Values of the variables a specification does not use                    *)
(***************************************************************************)
EmptyFrame == [cols |-> {}, rows |-> <<>>]

NoData ==
    /\ holdings = EmptyFrame
    /\ trades = EmptyFrame
    /\ stats = <<>>

NoRetrieval ==
    /\ context = None
    /\ error = None
    /\ calls = <<>>
    /\ raised = {}

NoMatches ==
    /\ results = <<>>
    /\ minScore = None
    /\ minChunks = None
    /\ valid = None

NoGeneration ==
    /\ pipeline = ""
    /\ client = FALSE
    /\ response = None
    /\ result = None

NoTexts ==
    /\ dedupOut = <<>>
    /\ text = <<>>
    /\ sanitized = <<>>

NoPrompt == prompt = None

NoClassification == classification = None

NoChunking ==
    /\ chunkArgs = None
    /\ fundChunks = <<>>

NoApp ==
    /\ rag_pipeline = None
    /\ initialization_error = None
    /\ reply = None

NoAux == NoPrompt /\ NoClassification /\ NoChunking /\ NoApp

(***************************************************************************)
(* SpecRouter: classify_query_type applied to every bounded question       *)
(***************************************************************************)
RouterInit ==
    /\ pc = "router_start"
    /\ question \in RouterQuestions
    /\ queryType = ""
    /\ NoData /\ NoRetrieval /\ NoMatches /\ NoGeneration /\ NoTexts /\ NoAux

ClassifyQuery ==
    /\ pc = "router_start"
    /\ queryType' = classify_query_type(question)
    /\ pc' = "router_done"
    /\ UNCHANGED llmVars
    /\ UNCHANGED auxVars
    /\ UNCHANGED <<question, holdings, trades, stats, context, error, calls,
                   raised, results, minScore, minChunks, valid>>

RouterNext == ClassifyQuery

SpecRouter == RouterInit /\ [][RouterNext]_vars

(***************************************************************************)
(* What it means for a text to match a pattern, stated on positions: the   *)
(* literals between the `.*` occur in order, without overlap, and no       *)
(* newline lies in the gaps.                                               *)
(***************************************************************************)
Stars(p) == {k \in 1..Len(p) : p[k] = DOTSTAR}

OccursAt(lit, s, a) ==
    /\ a + Len(lit) - 1 <= Len(s)
    /\ \A k \in 1..Len(lit) : ElemMatches(lit[k], s[a + k - 1])

SameLine(s, a, b) == \A m \in a..b : s[m] # "\n"

HasMatch(p, s) ==
    LET st == Stars(p)
        d1 == CHOOSE k \in st : \A o \in st : k <= o
        d2 == CHOOSE k \in st : \A o \in st : k >= o
    IN  CASE Cardinality(st) = 0 ->
               \E a \in 1..Len(s) : OccursAt(p, s, a)
          [] Cardinality(st) = 1 ->
               LET l1 == SubSeq(p, 1, d1 - 1)
                   l2 == SubSeq(p, d1 + 1, Len(p))
               IN  \E a \in 1..Len(s) :
                      /\ OccursAt(l1, s, a)
                      /\ \E b \in (a + Len(l1))..Len(s) :
                            /\ OccursAt(l2, s, b)
                            /\ SameLine(s, a + Len(l1), b - 1)
          [] Cardinality(st) = 2 ->
               LET l1 == SubSeq(p, 1, d1 - 1)
                   l2 == SubSeq(p, d1 + 1, d2 - 1)
                   l3 == SubSeq(p, d2 + 1, Len(p))
               IN  \E a \in 1..Len(s) :
                      /\ OccursAt(l1, s, a)
                      /\ \E b \in (a + Len(l1))..Len(s) :
                            /\ OccursAt(l2, s, b)
                            /\ \E c \in (b + Len(l2))..Len(s) :
                                  /\ OccursAt(l3, s, c)
                                  /\ SameLine(s, a + Len(l1), c - 1)

MatchesSomePattern(s) ==
    \E n \in 1..Len(aggregation_patterns) : HasMatch(aggregation_patterns[n], s)

\* C1: classify_query_type returns 'aggregation' exactly for the questions
\* whose lower-cased text matches at least one aggregation pattern and
\* 'specific' for all others, and the class is the same for the same text
\* written in any letter case.
C1_ClassifyByPatterns ==
    pc = "router_done" =>
        /\ queryType \in {"aggregation", "specific"}
        /\ queryType = "aggregation" <=> MatchesSomePattern(Lower(question))
        /\ queryType = classify_query_type(Upper(question))
        /\ queryType = classify_query_type(Lower(question))

\* a mixed-case question that matches a two-part pattern across a gap
C1_Witness ==
    /\ pc = "router_done"
    /\ queryType = "aggregation"
    /\ question # Lower(question)
    /\ ~ Contains(<<"a","l","l"," ","f","u","n","d","s">>, Lower(question))
    /\ Len(question) > 15

\* a question with the words of a pattern on two lines is 'specific'
C1_WitnessSpecific ==
    /\ pc = "router_done"
    /\ queryType = "specific"
    /\ Contains(<<"w","h","i","c","h"," ","f","u","n","d","\n"," ","b","e","s","t">>,
                Lower(question))

(***************************************************************************)
(* SpecAgg: the aggregation engine on every bounded dataset.  The frames   *)
(* are the ones startup hands to QueryRouter: loaded, then cleaned.        *)
(***************************************************************************)
AggQuestions == {
    <<"T","o","t","a","l"," ","C","a","s","h">>,
    <<"c","a","s","h"," ","t","o","p"," ","f","u","n","d","s">>,
    <<"t","o","t","a","l"," ","a","l","l"," ","f","u","n","d","s">>,
    <<"t","o","p"," ","f","u","n","d","s">> }

Reversed(d) == [i \in 1..Len(d) |-> d[Len(d) + 1 - i]]

\* the same report with the entries of its ranking dict in another order,
\* as a caller of format_aggregation_context may pass it
ReportsAsPassed(st) ==
    IF "pl_ytd_by_fund" \in DOMAIN st
    THEN {st, [st EXCEPT !["pl_ytd_by_fund"] = Reversed(@)]}
    ELSE {st}

AggInit ==
    /\ pc = "agg_start"
    /\ holdings \in {clean_holdings(r) : r \in RawHoldings}
    /\ trades \in {clean_trades(r) : r \in RawTrades}
    /\ question = <<>>
    /\ queryType = ""
    /\ stats = <<>>
    /\ NoRetrieval /\ NoMatches /\ NoGeneration /\ NoTexts /\ NoAux

ComputeFundAggregations ==
    /\ pc = "agg_start"
    /\ \E out \in compute_fund_aggregations(holdings, trades) :
          /\ pc' = IF out.raised THEN "agg_raised" ELSE "agg_computed"
          /\ stats' = out.stats
    /\ UNCHANGED llmVars
    /\ UNCHANGED auxVars
    /\ UNCHANGED <<question, queryType, holdings, trades, context, error,
                   calls, raised, results, minScore, minChunks, valid>>

FormatAggregationContext ==
    /\ pc = "agg_computed"
    /\ \E q \in AggQuestions, report \in ReportsAsPassed(stats) :
          /\ question' = q
          /\ context' = Some(format_aggregation_context(report, q))
    /\ pc' = "agg_formatted"
    /\ UNCHANGED llmVars
    /\ UNCHANGED auxVars
    /\ UNCHANGED <<queryType, holdings, trades, stats, error, calls, raised,
                   results, minScore, minChunks, valid>>

AggNext == ComputeFundAggregations \/ FormatAggregationContext

SpecAgg == AggInit /\ [][AggNext]_vars

(***************************************************************************)
(* Claims about the aggregation engine                                     *)
(***************************************************************************)
\* the text returned by format_aggregation_context
Text == context[1]

DictKeys(d) == {d[i][1] : i \in 1..Len(d)}

\* the fund identifiers that occur in a frame
FundIds(df) == {df.rows[i].PortfolioName : i \in 1..Len(df.rows)} \ {NaN}

Returned == pc \in {"agg_computed", "agg_formatted"}

ReportedFunds ==
    IF "pl_ytd_by_fund" \in DOMAIN stats
    THEN DictKeys(stats["pl_ytd_by_fund"]) ELSE {}

LinesOf(ctx, kind) == SelectSeq(ctx, LAMBDA l : l.kind = kind)

FundsNamed(ctx) == {ctx[i].fund : i \in 1..Len(ctx)} \ {""}

\* yearly P&L of a fund, summed row by row from the last row back
RECURSIVE YearlyTotal(_, _)
YearlyTotal(f, n) ==
    IF n = 0 THEN 0
    ELSE YearlyTotal(f, n - 1)
         + (IF holdings.rows[n].PortfolioName = f THEN holdings.rows[n].PL_YTD ELSE 0)

\* C2: the report's yearly-P&L-by-fund mapping has a key for every Holdings
\* row: the row's fund identifier, or for a row whose identifier was
\* missing in the input the key that stands for it.
C2_EveryHoldingsRowHasKey ==
    Returned =>
        \A i \in 1..Len(holdings.rows) :
            LET id == holdings.rows[i].PortfolioName
            IN  IF id = NaN
                THEN ReportedFunds \cap {NaN, "Unknown"} # {}
                ELSE id \in ReportedFunds

\* C3: every fund identifier present in Holdings or Trades is named in the
\* rendered context, however many funds there are.
C3_EveryFundNamed ==
    pc = "agg_formatted" =>
        (FundIds(holdings) \cup FundIds(trades)) \subseteq FundsNamed(Text)

\* four funds, one of them only in Trades, all rendered
C3_Witness ==
    /\ pc = "agg_formatted"
    /\ Cardinality(FundIds(holdings)) = 3
    /\ "Delta" \in FundIds(trades)
    /\ Cardinality(FundsNamed(Text)) = 4

\* C4: down the numbered ranking the rendered yearly P&L never increases,
\* and the ranks are numbered 1, 2, ... in that order.
C4_RankingNonIncreasing ==
    pc = "agg_formatted" =>
        LET rl == LinesOf(Text, "rank")
        IN  /\ \A i \in 1..Len(rl) : rl[i].rank = i
            /\ \A i, j \in 1..Len(rl) : i < j => rl[i].value >= rl[j].value

\* three ranked funds, the first strictly above the last
C4_Witness ==
    /\ pc = "agg_formatted"
    /\ LET rl == LinesOf(Text, "rank")
       IN  Len(rl) = 3 /\ rl[1].value > rl[3].value

\* C5: the N of "Total Funds: N" is the number of distinct fund identifiers
\* in the source dataset.
C5_TotalFundsIsDatasetCount ==
    pc = "agg_formatted" =>
        \A i \in 1..Len(Text) :
            Text[i].kind = "total_funds" =>
                Text[i].value =
                    Cardinality(FundIds(holdings) \cup FundIds(trades))

\* C6: each fund's reported yearly P&L is the sum over its Holdings rows,
\* in the report and (rounded to cents) in the ranking, and the fund ranked
\* first has the greatest such sum.
C6_ReportedIsSum ==
    /\ Returned /\ "pl_ytd_by_fund" \in DOMAIN stats =>
          \A i \in 1..Len(stats["pl_ytd_by_fund"]) :
              LET e == stats["pl_ytd_by_fund"][i]
              IN  e[2] = YearlyTotal(e[1], Len(holdings.rows))
    /\ pc = "agg_formatted" =>
          LET rl == LinesOf(Text, "rank")
          IN  /\ \A i \in 1..Len(rl) :
                    rl[i].value =
                        fmt_money(YearlyTotal(rl[i].fund, Len(holdings.rows)))
              /\ Len(rl) > 0 =>
                    \A f \in FundIds(holdings) :
                        YearlyTotal(rl[1].fund, Len(holdings.rows))
                            >= YearlyTotal(f, Len(holdings.rows))

\* a fund with two rows ranked first above another fund
C6_Witness ==
    /\ pc = "agg_formatted"
    /\ LET rl == LinesOf(Text, "rank")
       IN  /\ Len(rl) >= 2
           /\ Len(RowsOf(holdings, rl[1].fund)) >= 2
           /\ rl[1].value = 201
           /\ rl[2].value < 201

HasCashSection(ctx) == \E i \in 1..Len(ctx) : ctx[i].kind = "cash_title"

\* C7: the cash section is rendered exactly when the question mentions cash
\* and the report has cash totals.
C7_CashSectionIffMentionsCash ==
    pc = "agg_formatted" =>
        (HasCashSection(Text) <=>
            Contains(CASH, Lower(question)) /\ has_entries(stats, "total_cash"))

\* what the code does instead: the cash section is rendered exactly when
\* the lower-cased question contains both "total" and "cash" and the report
\* has cash totals.
CashSectionIffTotalAndCash ==
    pc = "agg_formatted" =>
        (HasCashSection(Text) <=>
            /\ Contains(TOTAL, Lower(question))
            /\ Contains(CASH, Lower(question))
            /\ has_entries(stats, "total_cash"))

(***************************************************************************)
(* config.py: retrieval settings (scores in hundredths)                    *)
(***************************************************************************)
TOP_K_CHUNKS == 10
MIN_RELEVANCE_SCORE == 30
MIN_CHUNKS_REQUIRED == 3

(***************************************************************************)
(* RetrievalPipeline                                                       *)
(***************************************************************************)
pl_keywords == {
    <<"p","e","r","f","o","r","m","a","n","c","e">>, <<"p","&","l">>,
    <<"p","r","o","f","i","t">>, <<"l","o","s","s">>,
    <<"p","l","_","y","t","d">>, <<"y","e","a","r","l","y">>,
    <<"r","e","t","u","r","n">> }

trade_keywords == {
    <<"t","r","a","d","e">>, <<"b","u","y">>, <<"s","e","l","l">>,
    <<"t","r","a","n","s","a","c","t","i","o","n">>,
    <<"p","u","r","c","h","a","s","e">> }

holdings_keywords == {
    <<"h","o","l","d","i","n","g">>, <<"p","o","s","i","t","i","o","n">>,
    <<"q","u","a","n","t","i","t","y"," ","h","e","l","d">>,
    <<"o","w","n","s">> }

any_keyword(keywords, query_lower) ==
    \E keyword \in keywords : Contains(keyword, query_lower)

\* three independent `if`s, the later ones overwriting the namespace
classify_query(query) ==
    LET query_lower == Lower(query)
        ns1 == IF any_keyword(pl_keywords, query_lower)
               THEN Some("holdings") ELSE None
        ns2 == IF any_keyword(trade_keywords, query_lower)
               THEN Some("trades") ELSE ns1
        ns3 == IF any_keyword(holdings_keywords, query_lower)
               THEN Some("holdings") ELSE ns2
    IN  [filters |-> IF any_keyword(pl_keywords, query_lower)
                     THEN {"has_pl"} ELSE {},
         namespace |-> ns3]

\* the relevance filter with a strict comparison
relevant_chunks_strict(res, min_score) ==
    SelectSeq(res, LAMBDA r : r.score > min_score)

\* [r for r in results if r['score'] >= min_score]
relevant_chunks(res, min_score) ==
    SelectSeq(res, LAMBDA r : r.score >= min_score)

\* `arg or default`: None and 0 both fall back to the default
or_default(arg, default) ==
    IF arg = None \/ arg = Some(0) THEN default ELSE arg[1]

validate_retrieval(res, min_score_arg, min_chunks_arg) ==
    LET min_score == or_default(min_score_arg, MIN_RELEVANCE_SCORE)
        min_chunks == or_default(min_chunks_arg, MIN_CHUNKS_REQUIRED)
        rel == relevant_chunks(res, min_score)
    IN  IF res = <<>>
        THEN [valid |-> None, error |-> Some(NO_DATA)]
        ELSE IF Len(rel) < min_chunks
        THEN [valid |-> None, error |-> Some(NO_DATA)]
        ELSE [valid |-> Some(rel), error |-> None]

AbsDiff(a, b) == IF a >= b THEN a - b ELSE b - a

\* a loop that drops every further chunk of a fund already kept
RECURSIVE DedupLoop_samefund(_, _)
DedupLoop_samefund(rest, deduplicated) ==
    IF rest = <<>> THEN deduplicated
    ELSE LET chunk == Head(rest)
             is_duplicate ==
                \E n \in 1..Len(deduplicated) :
                    chunk.fund = deduplicated[n].fund
         IN  DedupLoop_samefund(Tail(rest),
                                IF is_duplicate THEN deduplicated
                                ELSE Append(deduplicated, chunk))

\* a loop that compares a chunk with the last kept match only
RECURSIVE DedupLoop_lastkept(_, _)
DedupLoop_lastkept(rest, deduplicated) ==
    IF rest = <<>> THEN deduplicated
    ELSE LET chunk == Head(rest)
             selected == deduplicated[Len(deduplicated)]
             is_duplicate ==
                /\ chunk.fund = selected.fund
                /\ AbsDiff(chunk.score, selected.score) < 5
         IN  DedupLoop_lastkept(Tail(rest),
                                IF is_duplicate THEN deduplicated
                                ELSE Append(deduplicated, chunk))

\* the loop over chunks[1:], `deduplicated` being the matches kept so far
RECURSIVE DedupLoop(_, _)
DedupLoop(rest, deduplicated) ==
    IF rest = <<>> THEN deduplicated
    ELSE LET chunk == Head(rest)
             is_duplicate ==
                \E n \in 1..Len(deduplicated) :
                    /\ chunk.fund = deduplicated[n].fund
                    /\ AbsDiff(chunk.score, deduplicated[n].score) < 5
         IN  DedupLoop(Tail(rest),
                       IF is_duplicate THEN deduplicated
                       ELSE Append(deduplicated, chunk))

deduplicate_chunks(chunks) ==
    IF chunks = <<>> THEN chunks
    ELSE DedupLoop(Tail(chunks), <<Head(chunks)>>)

NO_RELEVANT_DATA == <<Line("no_relevant_data", 0, "", 0)>>

\* one header line per chunk: index, fund, source table, relevance
format_chunks_for_context(chunks) ==
    IF chunks = <<>> THEN NO_RELEVANT_DATA
    ELSE [i \in 1..Len(chunks) |->
            Line(chunks[i].file, i, chunks[i].fund, chunks[i].score)]

(***************************************************************************)
(* VectorDatabase: the similarity search behind retrieve_chunks.  An       *)
(* answer of the index is a score-ordered selection of its vectors; a      *)
(* call may also raise, which query() turns into an empty list.            *)
(***************************************************************************)
Match(id, score, fund, file, has_pl) ==
    [id |-> id, score |-> score, fund |-> fund, file |-> file, has_pl |-> has_pl]

IndexContent(namespace) ==
    IF namespace = "holdings"
    THEN <<Match("h1", 93, "Alpha", "holdings", TRUE),
           Match("h2", 91, "Alpha", "holdings", TRUE),
           Match("h3", 35, "Beta", "holdings", FALSE)>>
    ELSE <<Match("t1", 50, "Alpha", "trades", FALSE),
           Match("t2", 20, "Gamma", "trades", FALSE)>>

\* index.query(vector, top_k, namespace, filter): what the service may
\* answer, the metadata filter applied on its side
IndexAnswers(namespace, filters) ==
    LET content == SelectSeq(IndexContent(namespace),
                             LAMBDA m : "has_pl" \in filters => m.has_pl)
    IN  {SelectSeq(content, LAMBDA m : m.id \in keep) :
            keep \in SUBSET {content[i].id : i \in 1..Len(content)}}

\* outcome of one VectorDatabase.query call
QueryOutcomes(namespace, filters) ==
    {[raised |-> FALSE, matches |-> a] : a \in IndexAnswers(namespace, filters)}
    \cup {[raised |-> TRUE, matches |-> <<>>]}

\* `except Exception: return []`
vector_db_query(outcome) ==
    IF outcome.raised THEN <<>> ELSE outcome.matches

Take(seq, n) == SubSeq(seq, 1, IF Len(seq) < n THEN Len(seq) ELSE n)

\* list.sort(key=score, reverse=True): stable
sort_by_score(ms) ==
    LET pos(k) == 1 + Cardinality({m \in 1..Len(ms) :
                        \/ ms[m].score > ms[k].score
                        \/ ms[m].score = ms[k].score /\ m < k})
    IN  [i \in 1..Len(ms) |-> ms[CHOOSE k \in 1..Len(ms) : pos(k) = i]]

query_both_namespaces(holdings_outcome, trades_outcome) ==
    Take(sort_by_score(vector_db_query(holdings_outcome)
                       \o vector_db_query(trades_outcome)),
         TOP_K_CHUNKS)

\* a variant that reports a failed validation with neither value
retrieve_and_validate_silent(chunks) ==
    IF chunks = <<>>
    THEN [context |-> None, error |-> Some(NO_DATA)]
    ELSE LET v == validate_retrieval(chunks, None, None)
         IN  IF v.error # None
             THEN [context |-> None, error |-> None]
             ELSE [context |->
                      Some(format_chunks_for_context(deduplicate_chunks(v.valid[1]))),
                   error |-> None]

\* a variant that removes near-duplicates before it validates
retrieve_and_validate_dedup_first(chunks) ==
    IF chunks = <<>>
    THEN [context |-> None, error |-> Some(NO_DATA)]
    ELSE LET v == validate_retrieval(deduplicate_chunks(chunks), None, None)
         IN  IF v.error # None
             THEN [context |-> None, error |-> v.error]
             ELSE [context |-> Some(format_chunks_for_context(v.valid[1])),
                   error |-> None]

\* the steps of retrieve_and_validate after the chunks came back
retrieve_and_validate(chunks) ==
    IF chunks = <<>>
    THEN [context |-> None, error |-> Some(NO_DATA)]
    ELSE LET v == validate_retrieval(chunks, None, None)
         IN  IF v.error # None
             THEN [context |-> None, error |-> v.error]
             ELSE [context |->
                      Some(format_chunks_for_context(deduplicate_chunks(v.valid[1]))),
                   error |-> None]

(***************************************************************************)
(* SpecValidate: validate_retrieval on every bounded list of matches       *)
(***************************************************************************)
ValidatePool == {
    Match("a", 29, "Alpha", "holdings", TRUE),
    Match("b", 30, "Alpha", "holdings", TRUE),
    Match("c", 31, "Beta", "trades", FALSE) }

MinScoreArgs == {None, Some(0), Some(31)}
MinChunksArgs == {None, Some(0), Some(1), Some(4)}

ValidateInit ==
    /\ pc = "validate_start"
    /\ results \in UNION {[1..n -> ValidatePool] : n \in 0..MaxMatches}
    /\ minScore \in MinScoreArgs
    /\ minChunks \in MinChunksArgs
    /\ valid = None
    /\ question = <<>>
    /\ queryType = ""
    /\ NoData /\ NoRetrieval /\ NoGeneration /\ NoTexts /\ NoAux

ValidateRetrieval ==
    /\ pc = "validate_start"
    /\ LET v == validate_retrieval(results, minScore, minChunks)
       IN  /\ valid' = v.valid
           /\ error' = v.error
    /\ pc' = "validate_done"
    /\ UNCHANGED llmVars
    /\ UNCHANGED auxVars
    /\ UNCHANGED <<question, queryType, holdings, trades, stats, context,
                   calls, raised, results, minScore, minChunks>>

ValidateNext == ValidateRetrieval

SpecValidate == ValidateInit /\ [][ValidateNext]_vars

\* the threshold and the required count in force: the argument, or the
\* configured value when the argument is absent or zero
ThresholdInForce ==
    IF minScore \in {None, Some(0)} THEN MIN_RELEVANCE_SCORE ELSE minScore[1]
RequiredInForce ==
    IF minChunks \in {None, Some(0)} THEN MIN_CHUNKS_REQUIRED ELSE minChunks[1]

AtOrAbove == {i \in 1..Len(results) : results[i].score >= ThresholdInForce}

\* is sub the subsequence of full made of the elements at the indexes in ix
IsSelection(sub, full, ix) ==
    /\ Len(sub) = Cardinality(ix)
    /\ \A n \in 1..Len(sub) :
          \E i \in ix :
              /\ sub[n] = full[i]
              /\ Cardinality({j \in ix : j < i}) = n - 1

\* C10: validate_retrieval is a double gate: no matches, or fewer matches
\* at or above the threshold than the required count, give the no-data
\* error and no chunks; otherwise no error and exactly the matches at or
\* above the threshold, in input order.
C10_DoubleGate ==
    pc = "validate_done" =>
        /\ results = <<>> => valid = None /\ error = Some(NO_DATA)
        /\ Cardinality(AtOrAbove) < RequiredInForce =>
              valid = None /\ error = Some(NO_DATA)
        /\ results # <<>> /\ Cardinality(AtOrAbove) >= RequiredInForce =>
              /\ error = None
              /\ valid # None
              /\ IsSelection(valid[1], results, AtOrAbove)

\* a list with matches on both sides of (and on) the default threshold,
\* three of them passing
C10_Witness ==
    /\ pc = "validate_done"
    /\ minScore = None /\ minChunks = None
    /\ error = None
    /\ Len(valid[1]) = 3
    /\ Len(results) = 4
    /\ \E i \in 1..Len(valid[1]) : valid[1][i].score = 30

\* matches exist but too few pass: the second gate
C10_WitnessTooFew ==
    /\ pc = "validate_done"
    /\ Len(results) = 4
    /\ Cardinality(AtOrAbove) = 2
    /\ error = Some(NO_DATA)

(***************************************************************************)
(* HybridRetrievalPipeline.retrieve_context                                *)
(***************************************************************************)
\* a route test against a misspelt class name: every question goes to RAG
Route_misspelt(query_type) ==
    IF query_type = "aggregate" THEN "rc_aggregate" ELSE "rc_rag"

\* `if query_type == 'aggregation': ... else: ...`
Route(query_type) ==
    IF query_type = "aggregation" THEN "rc_aggregate" ELSE "rc_rag"

\* a handler that hands the exception text on as the error
aggregate_except_leak ==
    [context |-> None, error |-> Some("Aggregation error: 'PL_QTD'")]

\* `except Exception as e: ... return None, "Sorry, ..."`
aggregate_except == [context |-> None, error |-> Some(NO_DATA)]

\* a try block that takes a report without any section for a failure
aggregation_path_empty_is_error(out, format_raises, query) ==
    IF out.raised \/ out.stats = <<>>
    THEN [result |-> aggregate_except,
          calls |-> <<"compute_fund_aggregations">>,
          raised |-> {}]
    ELSE [result |-> [context |-> Some(format_aggregation_context(out.stats, query)),
                      error |-> None],
          calls |-> <<"compute_fund_aggregations", "format_aggregation_context">>,
          raised |-> {}]

\* the try block: compute, then format; an exception in either ends in the
\* handler.  format_raises stands for an exception raised while the text is
\* built.
aggregation_path(out, format_raises, query) ==
    IF out.raised
    THEN [result |-> aggregate_except,
          calls |-> <<"compute_fund_aggregations">>,
          raised |-> {"compute_fund_aggregations"}]
    ELSE IF format_raises
    THEN [result |-> aggregate_except,
          calls |-> <<"compute_fund_aggregations", "format_aggregation_context">>,
          raised |-> {"format_aggregation_context"}]
    ELSE [result |-> [context |-> Some(format_aggregation_context(out.stats, query)),
                      error |-> None],
          calls |-> <<"compute_fund_aggregations", "format_aggregation_context">>,
          raised |-> {}]

HybridQuestions == {
    <<"W","h","i","c","h"," ","f","u","n","d"," ","p","e","r","f","o","r","m","e","d",
      " ","b","e","s","t","?">>,
    <<"t","o","t","a","l"," ","c","a","s","h"," ","a","l","l"," ","f","u","n","d","s">>,
    <<"h","o","l","d","i","n","g","s"," ","o","f"," ","A","l","p","h","a">>,
    <<"A","l","p","h","a"," ","t","r","a","d","e","s"," ","p","r","o","f","i","t">>,
    <<"A","l","p","h","a">>,
    <<" ","\t"," ">>,
    <<>> }

HybridInit ==
    /\ pc = "rc_start"
    /\ question \in HybridQuestions
    /\ holdings \in {clean_holdings(r) :
                        r \in {h \in RawHoldings : Len(h.rows) <= MaxHybridRows}}
    /\ trades \in {clean_trades(r) :
                        r \in {t \in RawTrades : Len(t.rows) <= MaxHybridRows}}
    /\ queryType = ""
    /\ stats = <<>>
    /\ NoRetrieval /\ NoMatches /\ NoGeneration /\ NoTexts /\ NoAux

\* query_type = self.router.classify_query_type(query)
RC_Classify ==
    /\ pc = "rc_start"
    /\ queryType' = classify_query_type(question)
    /\ calls' = Append(calls, "classify_query_type")
    /\ pc' = Route(classify_query_type(question))
    /\ UNCHANGED llmVars
    /\ UNCHANGED auxVars
    /\ UNCHANGED <<question, holdings, trades, stats, context, error, raised,
                   results, minScore, minChunks, valid>>

\* the aggregation branch
RC_Aggregate ==
    /\ pc = "rc_aggregate"
    /\ \E out \in compute_fund_aggregations(holdings, trades),
          format_raises \in BOOLEAN :
          LET r == aggregation_path(out, format_raises, question)
          IN  /\ context' = r.result.context
              /\ error' = r.result.error
              /\ calls' = calls \o r.calls
              /\ raised' = raised \cup r.raised
              /\ stats' = out.stats
    /\ pc' = "rc_done"
    /\ UNCHANGED llmVars
    /\ UNCHANGED auxVars
    /\ UNCHANGED <<question, queryType, holdings, trades, results, minScore,
                   minChunks, valid>>

\* the RAG branch: return self.rag_retrieval.retrieve_and_validate(query)
RC_Rag ==
    /\ pc = "rc_rag"
    /\ LET c == classify_query(question)
       IN  IF c.namespace # None
           THEN \E o \in QueryOutcomes(c.namespace[1], c.filters) :
                   /\ results' = vector_db_query(o)
                   /\ calls' = Append(calls, "similarity_search")
                   /\ raised' = IF o.raised
                                THEN raised \cup {"similarity_search"}
                                ELSE raised
           ELSE \E ho \in QueryOutcomes("holdings", c.filters),
                   to \in QueryOutcomes("trades", c.filters) :
                   /\ results' = query_both_namespaces(ho, to)
                   /\ calls' = calls \o <<"similarity_search", "similarity_search">>
                   /\ raised' = IF ho.raised \/ to.raised
                                THEN raised \cup {"similarity_search"}
                                ELSE raised
    /\ context' = retrieve_and_validate(results').context
    /\ error' = retrieve_and_validate(results').error
    /\ pc' = "rc_done"
    /\ UNCHANGED llmVars
    /\ UNCHANGED auxVars
    /\ UNCHANGED <<question, queryType, holdings, trades, stats, minScore,
                   minChunks, valid>>

HybridNext == RC_Classify \/ RC_Aggregate \/ RC_Rag

SpecHybrid == HybridInit /\ [][HybridNext]_vars

Called(callee) == \E i \in 1..Len(calls) : calls[i] = callee

\* C8: the route is chosen once per question: on 'aggregation' the
\* similarity search is never called, on 'specific' the aggregate
\* computation is never called, and a failure of the chosen path is what
\* retrieve_context returns, the other path untried.
C8_OneShotRoute ==
    /\ queryType = "aggregation" => ~ Called("similarity_search")
    /\ queryType = "specific" =>
          /\ ~ Called("compute_fund_aggregations")
          /\ ~ Called("format_aggregation_context")
    /\ pc = "rc_done" =>
          /\ queryType \in {"aggregation", "specific"}
          /\ Len(SelectSeq(calls, LAMBDA c : c = "classify_query_type")) = 1
          /\ Called("similarity_search") # Called("compute_fund_aggregations")
          /\ error # None => context = None

\* an aggregation that failed: returned as the error, no search made
C8_Witness ==
    /\ pc = "rc_done"
    /\ queryType = "aggregation"
    /\ error # None
    /\ calls = <<"classify_query_type", "compute_fund_aggregations">>

\* a semantic retrieval that failed: returned as the error, no aggregate
C8_WitnessSpecific ==
    /\ pc = "rc_done"
    /\ queryType = "specific"
    /\ error # None
    /\ Called("similarity_search")
    /\ Len(holdings.rows) > 0

\* C9: an exception raised by the aggregate computation or by its
\* formatting is not propagated: retrieve_context returns no context and
\* the fixed no-data sentence.
C9_AggregationFailureIsNoData ==
    pc = "rc_done"
        /\ raised \cap {"compute_fund_aggregations",
                        "format_aggregation_context"} # {} =>
    context = None /\ error = Some(NO_DATA)

\* the computation raised on a frame that lacks a P&L column
C9_Witness ==
    /\ pc = "rc_done"
    /\ "compute_fund_aggregations" \in raised
    /\ "PL_QTD" \notin holdings.cols
    /\ Len(holdings.rows) > 0
    /\ error = Some(NO_DATA)

(***************************************************************************)
(* Characters.  A character is a one-character string; a character that    *)
(* cannot be typed is written as its Python escape ("\\x0b" is the vertical *)
(* tab).  ASCII[n + 1] is the character with code point n.                 *)
(***************************************************************************)
ASCII == <<
    "\\x00", "\\x01", "\\x02", "\\x03", "\\x04", "\\x05", "\\x06", "\\x07",
    "\\x08", "\t", "\n", "\\x0b", "\f", "\r", "\\x0e", "\\x0f",
    "\\x10", "\\x11", "\\x12", "\\x13", "\\x14", "\\x15", "\\x16", "\\x17",
    "\\x18", "\\x19", "\\x1a", "\\x1b", "\\x1c", "\\x1d", "\\x1e", "\\x1f",
    " ", "!", "\"", "#", "$", "%", "&", "'",
    "(", ")", "*", "+", ",", "-", ".", "/",
    "0", "1", "2", "3", "4", "5", "6", "7",
    "8", "9", ":", ";", "<", "=", ">", "?",
    "@", "A", "B", "C", "D", "E", "F", "G",
    "H", "I", "J", "K", "L", "M", "N", "O",
    "P", "Q", "R", "S", "T", "U", "V", "W",
    "X", "Y", "Z", "[", "\\", "]", "^", "_",
    "\\x60", "a", "b", "c", "d", "e", "f", "g",
    "h", "i", "j", "k", "l", "m", "n", "o",
    "p", "q", "r", "s", "t", "u", "v", "w",
    "x", "y", "z", "{", "|", "}", "~", "\\x7f" >>

NEL == "\\x85"
NBSP == "\\xa0"

\* Python's ord() on the characters that occur in the model
CodePoint ==
    [c \in {ASCII[n] : n \in 1..Len(ASCII)} |->
        (CHOOSE n \in 1..Len(ASCII) : ASCII[n] = c) - 1]

ord(c) ==
    IF c \in DOMAIN CodePoint THEN CodePoint[c]
    ELSE IF c = NEL THEN 133
    ELSE IF c = NBSP THEN 160
    ELSE IF c = "\\u274c" THEN 10060
    ELSE IF c = "\\u26a0" THEN 9888
    ELSE IF c = "\\ufe0f" THEN 65039
    ELSE 65533

\* str.isspace() of one character
isspace(c) == ord(c) \in (9..13) \cup (28..32) \cup {133, 160}

\* str.strip()
RECURSIVE lstrip(_)
lstrip(s) == IF s # <<>> /\ isspace(Head(s)) THEN lstrip(Tail(s)) ELSE s

RECURSIVE rstrip(_)
rstrip(s) ==
    IF s # <<>> /\ isspace(s[Len(s)]) THEN rstrip(SubSeq(s, 1, Len(s) - 1)) ELSE s

strip(s) == rstrip(lstrip(s))

\* str.replace(old, new): leftmost non-overlapping occurrences
RECURSIVE replace(_, _, _)
replace(s, old, new) ==
    IF Len(s) < Len(old) THEN s
    ELSE IF SubSeq(s, 1, Len(old)) = old
    THEN new \o replace(SubSeq(s, Len(old) + 1, Len(s)), old, new)
    ELSE <<Head(s)>> \o replace(Tail(s), old, new)

(***************************************************************************)
(* sanitize_text_for_json                                                  *)
(***************************************************************************)
\* a character class that forgets DEL
control_class_no_del(c) == ord(c) \in (0..9) \cup (11..31)

\* the character class [\x00-\x09\x0B-\x1F\x7F]
control_class(c) == ord(c) \in (0..9) \cup (11..31) \cup {127}

\* re.sub(class, '', text)
re_sub_class(s) == SelectSeq(s, LAMBDA c : ~ control_class(c))

sanitize_text_for_json(t) ==
    IF t = <<>> THEN t
    ELSE LET t1 == re_sub_class(t)
             t2 == replace(replace(t1, <<"\r", "\n">>, <<"\n">>), <<"\r">>, <<"\n">>)
             t3 == replace(t2, <<"\\x00">>, <<>>)
         IN  strip(t3)

\* C12: an exception raised by a similarity-search call, in one partition
\* or in both, is caught, and retrieve_and_validate returns no context and
\* the fixed no-data sentence; the returned error is never any other text.
C12_SearchFailureIsNoData ==
    pc = "rc_done" =>
        /\ "similarity_search" \in raised =>
              context = None /\ error = Some(NO_DATA)
        /\ error \in {None, Some(NO_DATA)}

(***************************************************************************)
(* SpecDedup: deduplicate_chunks on every bounded score-sorted list        *)
(***************************************************************************)
DedupPool == {
    Match("a1", 93, "Alpha", "holdings", TRUE),
    Match("b1", 92, "Beta", "holdings", TRUE),
    Match("a2", 91, "Alpha", "holdings", TRUE),
    Match("a3", 88, "Alpha", "trades", FALSE),
    Match("b2", 88, "Beta", "trades", FALSE),
    Match("a4", 86, "Alpha", "holdings", FALSE) }

\* the lists a search hands over: best score first
ScoreSorted(ms) ==
    \A i \in 1..(Len(ms) - 1) : ms[i].score >= ms[i + 1].score

DedupInit ==
    /\ pc = "dedup_start"
    /\ results \in {ms \in UNION {[1..n -> DedupPool] : n \in 0..MaxMatches} :
                        ScoreSorted(ms)}
    /\ minScore = None /\ minChunks = None /\ valid = None
    /\ dedupOut = <<>> /\ text = <<>> /\ sanitized = <<>>
    /\ question = <<>>
    /\ queryType = ""
    /\ NoData /\ NoRetrieval /\ NoGeneration /\ NoAux

DeduplicateChunks ==
    /\ pc = "dedup_start"
    /\ dedupOut' = deduplicate_chunks(results)
    /\ pc' = "dedup_done"
    /\ UNCHANGED auxVars
    /\ UNCHANGED <<question, queryType, holdings, trades, stats, context,
                   error, calls, raised, results, minScore, minChunks, valid,
                   pipeline, client, response, result, text, sanitized>>

DedupNext == DeduplicateChunks

SpecDedup == DedupInit /\ [][DedupNext]_vars

\* same fund identifier and scores less than 0.05 apart
NearDuplicates(a, b) == a.fund = b.fund /\ AbsDiff(a.score, b.score) < 5

\* C11: the list returned by deduplicate_chunks is a selection of the
\* input, in input order, that contains the first match and no two
\* matches of the same fund with scores less than 0.05 apart; so of any
\* such pair of the input at most one survives.
C11_NoNearDuplicatesSurvive ==
    pc = "dedup_done" =>
        /\ results = <<>> => dedupOut = <<>>
        /\ results # <<>> =>
              \E ix \in SUBSET (1..Len(results)) :
                  /\ IsSelection(dedupOut, results, ix)
                  /\ 1 \in ix
                  /\ \A i, j \in ix :
                        i # j => ~ NearDuplicates(results[i], results[j])
        /\ \A m, n \in 1..Len(dedupOut) :
              m # n => ~ NearDuplicates(dedupOut[m], dedupOut[n])

\* scores 0.93 and 0.91 of one fund: exactly one of the two is kept, and
\* a later match of that fund, far enough from the first, is kept too
C11_Witness ==
    /\ pc = "dedup_done"
    /\ Len(results) = 4
    /\ results[1].id = "a1" /\ results[2].id = "b1" /\ results[3].id = "a2"
    /\ results[4].id = "a3"
    /\ Len(dedupOut) = 3
    /\ dedupOut[3].id = "a3"

(***************************************************************************)
(* SpecSanitize: sanitize_text_for_json on every bounded text              *)
(***************************************************************************)
MaxText == 4

SanitizeAlphabet ==
    {"\\x00", "\t", "\n", "\\x0b", "\r", "\\x1f", "\\x7f", " ", "a", "b"}

SanitizeInit ==
    /\ pc = "sanitize_start"
    /\ text \in UNION {[1..n -> SanitizeAlphabet] : n \in 0..MaxText}
    /\ sanitized = <<>>
    /\ dedupOut = <<>>
    /\ question = <<>>
    /\ queryType = ""
    /\ NoData /\ NoRetrieval /\ NoMatches /\ NoGeneration /\ NoAux

SanitizeTextForJson ==
    /\ pc = "sanitize_start"
    /\ sanitized' = sanitize_text_for_json(text)
    /\ pc' = "sanitize_done"
    /\ UNCHANGED auxVars
    /\ UNCHANGED <<question, queryType, holdings, trades, stats, context,
                   error, calls, raised, results, minScore, minChunks, valid,
                   pipeline, client, response, result, dedupOut, text>>

SanitizeNext == SanitizeTextForJson

SpecSanitize == SanitizeInit /\ [][SanitizeNext]_vars

\* the control characters: 0x00-0x1F and 0x7F
IsControl(c) == ord(c) \in (0..31) \cup {127}

\* C16: the sanitized text holds no NUL, no vertical tab and no other
\* control character (0x00-0x1F, 0x7F) except newline and tab.
C16_NoControlCharacters ==
    pc = "sanitize_done" =>
        \A i \in 1..Len(sanitized) :
            IsControl(sanitized[i]) => sanitized[i] \in {"\n", "\t"}

\* a text with a NUL, a vertical tab and a DEL around a letter
C16_Witness ==
    /\ pc = "sanitize_done"
    /\ text = <<"\\x00", "a", "\\x0b", "\\x7f">>
    /\ sanitized = <<"a">>

\* a character that is neither whitespace nor a control character
Solid(c) == ~ isspace(c) /\ ~ IsControl(c)

SolidBefore(s, i) == Cardinality({k \in 1..(i - 1) : Solid(s[k])})

\* position i of s lies between two solid characters
Embedded(s, i) ==
    /\ \E a \in 1..(i - 1) : Solid(s[a])
    /\ \E b \in (i + 1)..Len(s) : Solid(s[b])

\* C17: every newline and every tab that stands between non-whitespace
\* characters of the input is present in the output, at the same place
\* relative to the characters kept.
C17_NewlinesAndTabsSurvive ==
    pc = "sanitize_done" =>
        \A i \in 1..Len(text) :
            text[i] \in {"\n", "\t"} /\ Embedded(text, i) =>
                \E j \in 1..Len(sanitized) :
                    /\ sanitized[j] = text[i]
                    /\ SolidBefore(sanitized, j) = SolidBefore(text, i)

\* what the code does: embedded newlines survive, no tab ever does
NewlinesSurviveTabsDoNot ==
    pc = "sanitize_done" =>
        /\ \A i \in 1..Len(text) :
              text[i] = "\n" /\ Embedded(text, i) =>
                  \E j \in 1..Len(sanitized) :
                      /\ sanitized[j] = "\n"
                      /\ SolidBefore(sanitized, j) = SolidBefore(text, i)
        /\ \A j \in 1..Len(sanitized) : sanitized[j] # "\t"

(***************************************************************************)
(* LLMHandler: the generation side.  The generation service is outside     *)
(* the program; a call to it either raises, with a message, or returns a   *)
(* response whose text may be empty.                                       *)
(***************************************************************************)
\* the characters of the no-data sentence
NO_DATA_TEXT ==
    <<"S","o","r","r","y",","," ","I"," ","c","a","n","n","o","t"," ",
      "f","i","n","d"," ","t","h","e"," ","a","n","s","w","e","r"," ",
      "i","n"," ","t","h","e"," ","p","r","o","v","i","d","e","d"," ",
      "d","a","t","a">>

\* the characters of a message held as a string
chars(s) == IF s = NO_DATA THEN NO_DATA_TEXT ELSE <<s>>

NO_ANSWER ==
    <<"S","o","r","r","y",","," ","I"," ","c","o","u","l","d"," ","n",
      "o","t"," ","g","e","n","e","r","a","t","e"," ","a","n"," ","a",
      "n","s","w","e","r",".">>

NOT_INITIALIZED ==
    <<"\\u274c"," ","L","L","M"," ","m","o","d","e","l"," ","n","o","t",
      " ","i","n","i","t","i","a","l","i","z","e","d","."," ","P","l",
      "e","a","s","e"," ","c","h","e","c","k"," ","y","o","u","r"," ",
      "A","P","I"," ","k","e","y",".">>

RATE_LIMIT_EXCEEDED ==
    <<"\\u26a0","\\ufe0f"," ","A","P","I"," ","r","a","t","e"," ","l",
      "i","m","i","t"," ","e","x","c","e","e","d","e","d","."," ","P",
      "l","e","a","s","e"," ","w","a","i","t"," ","a"," ","m","o","m",
      "e","n","t"," ","a","n","d"," ","t","r","y"," ","a","g","a","i",
      "n",".">>

INVALID_API_KEY ==
    <<"\\u274c"," ","I","n","v","a","l","i","d"," ","A","P","I"," ","k",
      "e","y","."," ","P","l","e","a","s","e"," ","c","h","e","c","k",
      " ","y","o","u","r"," ","G","e","m","i","n","i"," ","A","P","I",
      " ","k","e","y"," ","c","o","n","f","i","g","u","r","a","t","i",
      "o","n",".">>

\* f"\u274c Error generating answer: {error_msg}" up to the message
ERROR_GENERATING_MARKED ==
    <<"\\u274c"," ","E","r","r","o","r"," ","g","e","n","e","r","a","t",
      "i","n","g"," ","a","n","s","w","e","r",":"," ">>

\* f"Error generating answer: {str(e)}" up to the message
ERROR_GENERATING ==
    <<"E","r","r","o","r"," ","g","e","n","e","r","a","t","i","n","g",
      " ","a","n","s","w","e","r",":"," ">>

\* str(e) of the exceptions a generation call is let raise here
QuotaMessage ==
    <<"4","2","9"," ","Q","u","o","t","a"," ","e","x","c","e","e","d",
      "e","d">>

RateMessage ==
    <<"R","a","t","e"," ","l","i","m","i","t"," ","h","i","t">>

KeyMessage ==
    <<"A","P","I"," ","k","e","y"," ","n","o","t"," ","v","a","l","i",
      "d">>

OtherMessage ==
    <<"C","o","n","n","e","c","t","i","o","n"," ","r","e","s","e","t">>

\* str(e) of the AttributeError raised by self.llm.client.models on a
\* handler built without an API key
NoClientMessage ==
    <<"'","N","o","n","e","T","y","p","e","'"," ","o","b","j","e","c",
      "t"," ","h","a","s"," ","n","o"," ","a","t","t","r","i","b","u",
      "t","e"," ","'","m","o","d","e","l","s","'">>

\* str(e) of an exception raised inside sanitize_text_for_json
SanitizeMessage ==
    <<"e","x","p","e","c","t","e","d"," ","s","t","r","i","n","g"," ",
      "o","r"," ","b","y","t","e","s","-","l","i","k","e"," ","o","b",
      "j","e","c","t">>

GenerationErrors == {QuotaMessage, RateMessage, KeyMessage, OtherMessage}

\* response.text of the responses the service is let return here; <<>> is
\* a response without text
GeneratedTexts == {
    <<>>,
    <<"o","k">>,
    <<" ","o","k"," ","\n">>,
    <<"A","l","p","h","a","\n","l","e","a","d","s","\\x00","\r","\n">>,
    NO_DATA_TEXT }

GenOutcomes ==
    {[raised |-> TRUE, text |-> m] : m \in GenerationErrors}
    \cup {[raised |-> FALSE, text |-> t] : t \in GeneratedTexts}

\* the except branch of generate_answer
generate_answer_except(error_msg) ==
    IF \/ Contains(<<"q","u","o","t","a">>, Lower(error_msg))
       \/ Contains(<<"r","a","t","e"," ","l","i","m","i","t">>, Lower(error_msg))
    THEN RATE_LIMIT_EXCEEDED
    ELSE IF Contains(<<"a","p","i"," ","k","e","y">>, Lower(error_msg))
    THEN INVALID_API_KEY
    ELSE ERROR_GENERATING_MARKED \o error_msg

\* generate_answer on a handler that is or is not initialised, the
\* service answering with outcome
generate_answer(initialised, outcome) ==
    IF ~ initialised
    THEN [answer |-> NOT_INITIALIZED, calls |-> <<>>, raised |-> {}]
    ELSE IF outcome.raised
    THEN [answer |-> generate_answer_except(outcome.text),
          calls |-> <<"generate_content">>,
          raised |-> {"generate_content"}]
    ELSE [answer |-> IF outcome.text # <<>> THEN outcome.text ELSE NO_ANSWER,
          calls |-> <<"generate_content">>,
          raised |-> {}]

validate_answer(answer) ==
    IF /\ Contains(<<"s","o","r","r","y">>, Lower(answer))
       /\ Contains(<<"c","a","n","n","o","t"," ","f","i","n","d">>, Lower(answer))
    THEN TRUE
    ELSE IF Len(strip(answer)) < 10
    THEN FALSE
    ELSE TRUE

\* `if error:`
truthy(e) == e # None /\ e[1] # ""

(***************************************************************************)
(* RAGPipeline.query                                                       *)
(***************************************************************************)
rag_short_circuit(err) ==
    [answer |-> chars(err[1]), context |-> <<>>, error |-> err, stats |-> <<>>]

\* steps 2 and 3: generate, validate, replace an invalid answer
rag_generation(ctx, initialised, outcome) ==
    LET g == generate_answer(initialised, outcome)
    IN  [result |-> [answer |-> IF validate_answer(g.answer) THEN g.answer
                                ELSE NO_DATA_TEXT,
                     context |-> ctx, error |-> None, stats |-> <<>>],
         generated |-> g.answer,
         calls |-> g.calls,
         raised |-> g.raised]

(***************************************************************************)
(* HybridRAGPipeline.query                                                 *)
(***************************************************************************)
\* an early return taken after the class was derived and the context stored
short_circuit_classified(err) ==
    [answer |-> chars(err[1]), context |-> NO_DATA_TEXT,
     query_type |-> "specific", error |-> err]

\* an early return that leaves the answer as initialised
short_circuit_blank(err) ==
    [answer |-> <<>>, context |-> <<>>, query_type |-> "", error |-> err]

\* `if error: result['error'] = error; result['answer'] = error; return`
short_circuit(err) ==
    [answer |-> chars(err[1]), context |-> <<>>, query_type |-> "", error |-> err]

\* a handler that logs and raises again
generation_except_reraise(msg) == [escaped |-> TRUE, answer |-> <<>>]

\* `except Exception as e: answer = f"Error generating answer: {str(e)}"`
generation_except(msg) == [escaped |-> FALSE, answer |-> ERROR_GENERATING \o msg]

\* a generation step that calls the service again after a failed call
hybrid_generation_retry(initialised, outcome, sanitize_raises) ==
    IF ~ initialised
    THEN [calls |-> <<>>, raised |-> {"client"}, generated |-> None,
          handled |-> generation_except(NoClientMessage)]
    ELSE IF outcome.raised
    THEN [calls |-> <<"generate_content", "generate_content">>,
          raised |-> {"generate_content"}, generated |-> None,
          handled |-> generation_except(outcome.text)]
    ELSE [calls |-> <<"generate_content">>, raised |-> {},
          generated |-> Some(IF outcome.text # <<>> THEN outcome.text ELSE NO_ANSWER),
          handled |-> [escaped |-> FALSE,
                       answer |-> sanitize_text_for_json(
                           IF outcome.text # <<>> THEN outcome.text ELSE NO_ANSWER)]]

\* step 4, the try block and its handler.  On a handler without a client
\* the attribute access raises before any call is made.  sanitize_raises
\* stands for an exception raised inside sanitize_text_for_json.
hybrid_generation(initialised, outcome, sanitize_raises) ==
    IF ~ initialised
    THEN [calls |-> <<>>, raised |-> {"client"}, generated |-> None,
          handled |-> generation_except(NoClientMessage)]
    ELSE IF outcome.raised
    THEN [calls |-> <<"generate_content">>,
          raised |-> {"generate_content"}, generated |-> None,
          handled |-> generation_except(outcome.text)]
    ELSE LET raw_answer == IF outcome.text # <<>> THEN outcome.text ELSE NO_ANSWER
         IN  IF sanitize_raises
             THEN [calls |-> <<"generate_content">>,
                   raised |-> {"sanitize_text_for_json"},
                   generated |-> Some(raw_answer),
                   handled |-> generation_except(SanitizeMessage)]
             ELSE [calls |-> <<"generate_content">>, raised |-> {},
                   generated |-> Some(raw_answer),
                   handled |-> [escaped |-> FALSE,
                                answer |-> sanitize_text_for_json(raw_answer)]]

\* a result that reports a failed generation step in its error field
hybrid_result_error_on_failure(ctx, query_type, g) ==
    [answer |-> g.handled.answer, context |-> ctx, query_type |-> query_type,
     error |-> IF g.raised # {} THEN Some(NO_DATA) ELSE None]

\* the dict returned after step 4
hybrid_result(ctx, query_type, g) ==
    [answer |-> g.handled.answer, context |-> ctx, query_type |-> query_type,
     error |-> None]

\* a template choice that tests against a misspelt class name
select_prompt_misspelt(query_type) ==
    IF query_type = "aggregate" THEN "AGGREGATION_PROMPT" ELSE "RAG_PROMPT"

\* step 2: `if query_type == 'aggregation': prompt_template =
\* self.AGGREGATION_PROMPT  else: prompt_template = self.RAG_PROMPT`
select_prompt(query_type) ==
    IF query_type = "aggregation" THEN "AGGREGATION_PROMPT" ELSE "RAG_PROMPT"

\* step 3: prompt_template.format(context=context, question=user_question)
filled_prompt(prompt_template, ctx, user_question) ==
    [template |-> prompt_template, context |-> ctx, question |-> user_question]

(***************************************************************************)
(* SpecPipeline: one query() of either pipeline.  The hybrid pipeline      *)
(* starts with retrieve_context (RC_Classify and the route it takes), the  *)
(* plain pipeline with retrieve_and_validate (RC_Rag); both go on from     *)
(* "rc_done".                                                              *)
(***************************************************************************)
\* the frames the hybrid pipeline is built on here: two funds, with and
\* without the quarterly column (without it the aggregate computation
\* raises)
PipelineHoldings ==
    {clean_holdings([cols |-> c, rows |-> <<
        [PortfolioName |-> "Alpha", PL_YTD |-> Num(1004), PL_QTD |-> Num(10),
         PL_MTD |-> Num(0), PL_DTD |-> Num(0)],
        [PortfolioName |-> "Beta", PL_YTD |-> Num(704), PL_QTD |-> Num(0),
         PL_MTD |-> Num(0), PL_DTD |-> Num(0)]>>]) : c \in HoldingsColumnSets}

PipelineTrades ==
    {clean_trades([cols |-> TradesColumns, rows |-> <<
        [PortfolioName |-> "Alpha", TradeTypeName |-> "Buy",
         TotalCash |-> Num(500)]>>])}

\* a table that was not loaded, and a table with its columns and no row
NoRows(columns) == {EmptyFrame, [cols |-> columns, rows |-> <<>>]}

PipelineInit ==
    /\ pipeline \in {"hybrid", "rag"}
    /\ pc = IF pipeline = "hybrid" THEN "rc_start" ELSE "rc_rag"
    /\ client \in BOOLEAN
    /\ response = None
    /\ result = None
    /\ question \in HybridQuestions
    /\ holdings \in IF pipeline = "hybrid"
                     THEN PipelineHoldings \cup NoRows(HoldingsColumns)
                     ELSE {EmptyFrame}
    /\ trades \in IF pipeline = "hybrid"
                   THEN PipelineTrades \cup NoRows(TradesColumns)
                   ELSE {EmptyFrame}
    /\ queryType = ""
    /\ stats = <<>>
    /\ NoRetrieval /\ NoMatches /\ NoTexts /\ NoAux

\* HybridRAGPipeline.query, step 1 failed
HQ_ShortCircuit ==
    /\ pc = "rc_done" /\ pipeline = "hybrid"
    /\ truthy(error)
    /\ result' = Some(short_circuit(error))
    /\ pc' = "q_done"
    /\ UNCHANGED auxVars
    /\ UNCHANGED <<question, queryType, holdings, trades, stats, context,
                   error, calls, raised, results, minScore, minChunks, valid,
                   pipeline, client, response, dedupOut, text, sanitized>>

\* HybridRAGPipeline.query, steps 2 to 4 and the return
HQ_Generate ==
    /\ pc = "rc_done" /\ pipeline = "hybrid"
    /\ ~ truthy(error)
    /\ \E outcome \in GenOutcomes, sanitize_raises \in BOOLEAN :
       \E query_type \in {classify_query_type(question)},
          g \in {hybrid_generation(client, outcome, sanitize_raises)} :
              /\ queryType' = query_type
              /\ calls' = (calls \o <<"classify_query_type">>) \o g.calls
              /\ raised' = raised \cup g.raised
              /\ response' = IF g.calls = <<>> THEN None ELSE Some(outcome)
              /\ IF g.handled.escaped
                 THEN result' = None /\ pc' = "q_raised"
                 ELSE /\ result' = Some(hybrid_result(context[1], query_type, g))
                      /\ pc' = "q_done"
              /\ prompt' = Some(filled_prompt(select_prompt(query_type),
                                              context[1], question))
    /\ UNCHANGED <<classification, chunkArgs, fundChunks, rag_pipeline,
                   initialization_error, reply>>
    /\ UNCHANGED <<question, holdings, trades, stats, context, error, results,
                   minScore, minChunks, valid, pipeline, client, dedupOut,
                   text, sanitized>>

\* RAGPipeline.query, step 1 failed
RQ_ShortCircuit ==
    /\ pc = "rc_done" /\ pipeline = "rag"
    /\ truthy(error)
    /\ result' = Some(rag_short_circuit(error))
    /\ pc' = "q_done"
    /\ UNCHANGED auxVars
    /\ UNCHANGED <<question, queryType, holdings, trades, stats, context,
                   error, calls, raised, results, minScore, minChunks, valid,
                   pipeline, client, response, dedupOut, text, sanitized>>

\* RAGPipeline.query, steps 2 and 3 and the return
RQ_Generate ==
    /\ pc = "rc_done" /\ pipeline = "rag"
    /\ ~ truthy(error)
    /\ \E outcome \in GenOutcomes :
       \E g \in {rag_generation(context[1], client, outcome)} :
              /\ calls' = calls \o g.calls
              /\ raised' = raised \cup g.raised
              /\ response' = IF g.calls = <<>> THEN None ELSE Some(outcome)
              /\ result' = Some(g.result)
    /\ pc' = "q_done"
    /\ UNCHANGED auxVars
    /\ UNCHANGED <<question, queryType, holdings, trades, stats, context,
                   error, results, minScore, minChunks, valid, pipeline,
                   client, dedupOut, text, sanitized>>

PipelineNext ==
    \/ RC_Classify \/ RC_Aggregate \/ RC_Rag
    \/ HQ_ShortCircuit \/ HQ_Generate
    \/ RQ_ShortCircuit \/ RQ_Generate

SpecPipeline == PipelineInit /\ [][PipelineNext]_vars

\* number of calls made to the generation service
GenerationCalls ==
    Len(SelectSeq(calls, LAMBDA c : c = "generate_content"))

QueryReturned == pc = "q_done"
Hybrid == pipeline = "hybrid"

\* C13 as stated: no generation call when retrieval returned an error,
\* exactly one when it returned a context.
C13_OneGenerationCall ==
    /\ GenerationCalls <= 1
    /\ QueryReturned /\ Hybrid =>
          GenerationCalls = IF error # None THEN 0 ELSE 1

\* C13 amended: no generation call when retrieval returned an error; when
\* it returned a context, exactly one call if the handler has a client and
\* none if it has not (the attribute access fails before the call), and
\* never a second call.
C13_OneGenerationCallIfClient ==
    /\ GenerationCalls <= 1
    /\ QueryReturned /\ Hybrid =>
          GenerationCalls = IF error # None THEN 0
                            ELSE IF client THEN 1 ELSE 0

\* a generation call that raised, made once
C13_Witness ==
    /\ QueryReturned /\ Hybrid
    /\ client
    /\ "generate_content" \in raised
    /\ GenerationCalls = 1

\* retrieval failed: no call
C13_WitnessShortCircuit ==
    /\ QueryReturned /\ Hybrid
    /\ client
    /\ error # None
    /\ GenerationCalls = 0
    /\ Called("similarity_search")

\* C14: when retrieval returns an error the answer of the result is that
\* error text, which for no or insufficient matches is the no-data
\* sentence.
C14_AnswerIsRetrievalError ==
    QueryReturned /\ error # None =>
        /\ result[1].answer = chars(error[1])
        /\ result[1].answer = NO_DATA_TEXT

\* matches came back, too few of them relevant
C14_Witness ==
    /\ QueryReturned /\ Hybrid
    /\ error # None
    /\ results # <<>>
    /\ "similarity_search" \notin raised
    /\ result[1].answer = NO_DATA_TEXT

\* an exception was handled in the generation step
GenerationFailed ==
    raised \cap {"generate_content", "client", "sanitize_text_for_json"} # {}

\* C15: the error field of the hybrid result is set exactly when the
\* retrieval step failed; a failed generation step leaves it null.
C15_ErrorIffRetrievalFailed ==
    QueryReturned /\ Hybrid =>
        /\ result[1].error # None <=> error # None
        /\ result[1].error = error
        /\ GenerationFailed => result[1].error = None

\* the generation call raised: error null, the failure in the answer
C15_Witness ==
    /\ QueryReturned /\ Hybrid
    /\ "generate_content" \in raised
    /\ result[1].error = None
    /\ result[1].answer = ERROR_GENERATING \o OtherMessage

\* the text the validity check is about: what the generation step produced
Generated ==
    IF response = None \/ response[1].raised THEN None
    ELSE Some(IF response[1].text # <<>> THEN response[1].text ELSE NO_ANSWER)

\* C18: a generated text that fails the validity check is replaced by the
\* no-data sentence in the answer, in both pipelines.
C18_InvalidAnswerReplaced ==
    QueryReturned /\ Generated # None =>
        (~ validate_answer(Generated[1]) => result[1].answer = NO_DATA_TEXT)

\* the part of C18 that the code keeps: RAGPipeline.query
InvalidAnswerReplacedInRag ==
    QueryReturned /\ ~ Hybrid /\ Generated # None =>
        (~ validate_answer(Generated[1]) => result[1].answer = NO_DATA_TEXT)

\* the kinds of generation failure, by the exception message
FailureKind(msg) ==
    IF \/ Contains(<<"q","u","o","t","a">>, Lower(msg))
       \/ Contains(<<"r","a","t","e"," ","l","i","m","i","t">>, Lower(msg))
    THEN "rate_limit"
    ELSE IF Contains(<<"a","p","i"," ","k","e","y">>, Lower(msg))
    THEN "credential"
    ELSE "other"

StartsWith(s, prefix) ==
    Len(s) >= Len(prefix) /\ SubSeq(s, 1, Len(prefix)) = prefix

\* the answer of a generic failure: a fixed lead followed by the message
IsGenericFailure(answer, msg) ==
    answer \in {ERROR_GENERATING \o msg, ERROR_GENERATING_MARKED \o msg}

\* C19: a generation call that raises is answered by a text whose kind
\* tells rate-limit/quota failures, invalid-credential failures and other
\* failures apart: only the last have the generic form, and the first two
\* differ from each other; in both pipelines.
C19_FailureKindsDistinguished ==
    QueryReturned /\ response # None /\ response[1].raised =>
        LET msg == response[1].text
            answer == result[1].answer
        IN  /\ IsGenericFailure(answer, msg) <=> FailureKind(msg) = "other"
            /\ FailureKind(msg) = "rate_limit" => answer # INVALID_API_KEY
            /\ FailureKind(msg) = "credential" => answer # RATE_LIMIT_EXCEEDED

\* the part of C19 that the code keeps: generate_answer
FailureKindsDistinguishedInRag ==
    QueryReturned /\ ~ Hybrid /\ response # None /\ response[1].raised =>
        LET msg == response[1].text
            answer == result[1].answer
        IN  /\ FailureKind(msg) = "rate_limit" => answer = RATE_LIMIT_EXCEEDED
            /\ FailureKind(msg) = "credential" => answer = INVALID_API_KEY
            /\ FailureKind(msg) = "other" => IsGenericFailure(answer, msg)

\* C20: the hybrid query never raises: no step of it ends in an exception
\* that leaves query(), whatever failed, and what it returns is a dict
\* with the fields answer, query_type and error.
C20_NeverRaises ==
    Hybrid =>
        /\ pc \in {"rc_start", "rc_aggregate", "rc_rag", "rc_done", "q_done"}
        /\ pc = "q_done" =>
              /\ result # None
              /\ {"answer", "query_type", "error"} \subseteq DOMAIN result[1]

\* the search raised, and so did the query of a handler without client
C20_Witness ==
    /\ QueryReturned /\ Hybrid
    /\ ~ client
    /\ "client" \in raised
    /\ result[1].answer = ERROR_GENERATING \o NoClientMessage
    /\ result[1].query_type = "aggregation"

\* the aggregate computation raised
C20_WitnessAggregate ==
    /\ QueryReturned /\ Hybrid
    /\ "compute_fund_aggregations" \in raised
    /\ result[1].error = Some(NO_DATA)
    /\ result[1].query_type = ""

(***************************************************************************)
(* The prompt and the route                                                *)
(***************************************************************************)
FromAggregatePath == Called("format_aggregation_context")
FromSemanticRetrieval == Called("similarity_search")

\* C21: in one HybridRAGPipeline.query the class derived again in step 2
\* is the class whose route retrieve_context took, for every question
\* (the empty and the blank one included): the result says 'aggregation'
\* and the aggregation prompt is filled exactly when the context came from
\* the aggregate path, 'specific' and the RAG prompt exactly when it came
\* from the semantic retrieval, and the prompt carries that context.
C21_PromptFollowsRoute ==
    Hybrid /\ QueryReturned /\ result[1].error = None =>
        /\ prompt # None
        /\ FromAggregatePath # FromSemanticRetrieval
        /\ result[1].query_type = "aggregation" <=> FromAggregatePath
        /\ result[1].query_type = "specific" <=> FromSemanticRetrieval
        /\ prompt[1].template = "AGGREGATION_PROMPT" <=> FromAggregatePath
        /\ prompt[1].template = "RAG_PROMPT" <=> FromSemanticRetrieval
        /\ prompt[1].context = context[1]
        /\ prompt[1].question = question

\* an aggregation question answered from the aggregate report
C21_Witness ==
    /\ Hybrid /\ QueryReturned
    /\ result[1].error = None
    /\ FromAggregatePath
    /\ prompt[1].template = "AGGREGATION_PROMPT"

\* the empty and the blank question, answered from retrieved chunks
C21_WitnessEmpty ==
    /\ Hybrid /\ QueryReturned
    /\ question = <<>>
    /\ result[1].error = None
    /\ prompt[1].template = "RAG_PROMPT"

C21_WitnessBlank ==
    /\ Hybrid /\ QueryReturned
    /\ question = <<" ", "\t", " ">>
    /\ result[1].error = None
    /\ prompt[1].template = "RAG_PROMPT"

(***************************************************************************)
(* SpecClassify: classify_query applied to every bounded question made of  *)
(* topic words                                                             *)
(***************************************************************************)
MaxWords == 3

TopicWords == {
    <<"p","r","o","f","i","t">>,
    <<"P","&","L">>,
    <<" ","t","r","a","d","e","s">>,
    <<"S","e","l","l"," ">>,
    <<"h","o","l","d","i","n","g","s">>,
    <<" ","p","o","s","i","t","i","o","n">>,
    <<"A","l","p","h","a">>,
    <<" ">> }

TopicQuestions ==
    {Glue(ws, "lower") : ws \in UNION {[1..n -> TopicWords] : n \in 0..MaxWords}}

ClassifyInit ==
    /\ pc = "topic_start"
    /\ question \in TopicQuestions
    /\ queryType = ""
    /\ NoData /\ NoRetrieval /\ NoMatches /\ NoGeneration /\ NoTexts /\ NoAux

\* filters, namespace = self.classify_query(query)
ClassifyTopic ==
    /\ pc = "topic_start"
    /\ classification' = Some(classify_query(question))
    /\ pc' = "topic_done"
    /\ UNCHANGED llmVars
    /\ UNCHANGED <<prompt, chunkArgs, fundChunks, rag_pipeline,
                   initialization_error, reply>>
    /\ UNCHANGED <<question, queryType, holdings, trades, stats, context,
                   error, calls, raised, results, minScore, minChunks, valid>>

ClassifyNext == ClassifyTopic

SpecClassify == ClassifyInit /\ [][ClassifyNext]_vars

MentionsPL == any_keyword(pl_keywords, Lower(question))
MentionsTrade == any_keyword(trade_keywords, Lower(question))
MentionsHoldings == any_keyword(holdings_keywords, Lower(question))

\* C22: a question with a P&L keyword prefers the Holdings partition and
\* carries the must-have-P&L filter, one with a trade keyword prefers the
\* Trades partition, one with a holdings keyword prefers the Holdings
\* partition, and a question with none of them prefers no partition and
\* has an empty filter.
C22_KeywordsChoosePartition ==
    pc = "topic_done" =>
        /\ MentionsPL =>
              /\ classification[1].namespace = Some("holdings")
              /\ classification[1].filters = {"has_pl"}
        /\ MentionsTrade => classification[1].namespace = Some("trades")
        /\ MentionsHoldings => classification[1].namespace = Some("holdings")
        /\ ~ (MentionsPL \/ MentionsTrade \/ MentionsHoldings) =>
              /\ classification[1].namespace = None
              /\ classification[1].filters = {}

\* what the three tests in sequence give: the last topic that matches
\* names the partition (holdings over trade over P&L), and the filter
\* follows the P&L keyword alone, whichever partition was chosen
KeywordsChoosePartitionInSequence ==
    pc = "topic_done" =>
        /\ classification[1].filters = (IF MentionsPL THEN {"has_pl"} ELSE {})
        /\ classification[1].namespace =
              (IF MentionsHoldings THEN Some("holdings")
               ELSE IF MentionsTrade THEN Some("trades")
               ELSE IF MentionsPL THEN Some("holdings")
               ELSE None)

\* a question about the profit of trades: the Trades partition searched
\* with the filter that only Holdings chunks can pass
TradesWithPLFilter ==
    /\ pc = "topic_done"
    /\ classification[1].namespace = Some("trades")
    /\ classification[1].filters = {"has_pl"}

(***************************************************************************)
(* Partial failure in compute_fund_aggregations                            *)
(***************************************************************************)
MissingColumn ==
    \/ Len(holdings.rows) > 0 /\ holdings.cols # HoldingsColumns
    \/ Len(trades.rows) > 0 /\ trades.cols # TradesColumns

\* C23: compute_fund_aggregations tolerates a metric that cannot be
\* computed: with a P&L horizon column, the trade-type column or the cash
\* column missing the call does not fail as a whole, it returns a report
\* with the remaining metrics for all funds and the failed metric absent.
C23_PartialFailureTolerated ==
    /\ pc # "agg_raised"
    /\ Returned /\ Len(holdings.rows) > 0 =>
          /\ "holdings_count" \in DOMAIN stats
          /\ "pl_ytd_by_fund" \in DOMAIN stats
    /\ Returned /\ Len(trades.rows) > 0 => "trade_count" \in DOMAIN stats

\* the one metric that is guarded: without the trade-type column the
\* buy/sell split is empty and the other metrics are reported; the call
\* fails as a whole only for a frame with rows that lacks a P&L horizon
\* column or the cash column
OnlyTradeTypeFailureTolerated ==
    /\ pc = "agg_raised" =>
          \/ Len(holdings.rows) > 0 /\ "PL_QTD" \notin holdings.cols
          \/ Len(trades.rows) > 0 /\ "TotalCash" \notin trades.cols
    /\ Returned /\ Len(trades.rows) > 0 /\ "TradeTypeName" \notin trades.cols =>
          /\ stats["trade_types"] = <<>>
          /\ DictKeys(stats["trade_count"]) = DictKeys(stats["total_cash"])
          /\ stats["trade_count"] # <<>>

\* the quarterly column is missing and the whole call raised
QuarterlyColumnAborts ==
    /\ pc = "agg_raised"
    /\ Len(holdings.rows) > 0
    /\ "PL_QTD" \notin holdings.cols
    /\ trades.cols = TradesColumns

\* the cash column is missing and the whole call raised
CashColumnAborts ==
    /\ pc = "agg_raised"
    /\ Len(trades.rows) > 0
    /\ "TotalCash" \notin trades.cols
    /\ holdings.cols = HoldingsColumns

(***************************************************************************)
(* DataProcessor.chunk_by_fund.  A row is known by its fund and by the     *)
(* token count of its rendered text; the text of a chunk is the texts of   *)
(* its rows joined by a newline, and what one joint adds to the token      *)
(* count depends on the tokenizer: nothing or one token.                   *)
(***************************************************************************)
\* `max_tokens: int = 500`
DEFAULT_MAX_TOKENS == 500

RECURSIVE SumTokens(_)
SumTokens(rows) ==
    IF rows = <<>> THEN 0 ELSE Head(rows).tokens + SumTokens(Tail(rows))

\* count_tokens("\n".join(row texts))
count_tokens_joined(rows, joint) ==
    SumTokens(rows) + joint * (Len(rows) - 1)

\* {'text': chunk_text, 'metadata': self._create_metadata(...)}
make_chunk(rows, fund_name, joint) ==
    [rows |-> rows,
     tokens |-> count_tokens_joined(rows, joint),
     metadata |-> [fund |-> fund_name, row_count |-> Len(rows)]]

\* the loop over the rows of the fund and the final chunk
RECURSIVE ChunkLoop(_, _, _, _, _, _, _)
ChunkLoop(rest, out, current_rows, current_tokens, fund_name, max_tokens, joint) ==
    IF rest = <<>>
    THEN IF current_rows # <<>>
         THEN Append(out, make_chunk(current_rows, fund_name, joint))
         ELSE out
    ELSE LET row == Head(rest)
             row_tokens == row.tokens
             full == current_tokens + row_tokens > max_tokens
                        /\ Len(current_rows) > 0
         IN  ChunkLoop(Tail(rest),
                       IF full
                       THEN Append(out, make_chunk(current_rows, fund_name, joint))
                       ELSE out,
                       Append(IF full THEN <<>> ELSE current_rows, row),
                       (IF full THEN 0 ELSE current_tokens) + row_tokens,
                       fund_name, max_tokens, joint)

chunk_by_fund(df, fund_name, max_tokens, joint) ==
    LET fund_data == SelectSeq(df, LAMBDA r : r.PortfolioName = fund_name)
    IN  IF Len(fund_data) = 0
        THEN <<>>
        ELSE ChunkLoop(fund_data, <<>>, <<>>, 0, fund_name, max_tokens, joint)

(***************************************************************************)
(* SpecChunk: chunk_by_fund on every bounded table                         *)
(***************************************************************************)
MaxRows == 3

RowPool ==
    {[PortfolioName |-> f, tokens |-> t] :
        f \in {"Alpha", "Beta"}, t \in {120, 250, 510}}

ChunkInit ==
    /\ pc = "chunk_start"
    /\ chunkArgs \in
          {Some([df |-> d, fund_name |-> f, max_tokens |-> m, joint |-> j]) :
              d \in UNION {[1..n -> RowPool] : n \in 0..MaxRows},
              f \in {"Alpha", "Gamma"},
              m \in {DEFAULT_MAX_TOKENS, 300},
              j \in {0, 1}}
    /\ fundChunks = <<>>
    /\ question = <<>>
    /\ queryType = ""
    /\ NoData /\ NoRetrieval /\ NoMatches /\ NoGeneration /\ NoTexts
    /\ NoPrompt /\ NoClassification /\ NoApp

ChunkByFund ==
    /\ pc = "chunk_start"
    /\ fundChunks' = chunk_by_fund(chunkArgs[1].df, chunkArgs[1].fund_name,
                                   chunkArgs[1].max_tokens, chunkArgs[1].joint)
    /\ pc' = "chunk_done"
    /\ UNCHANGED llmVars
    /\ UNCHANGED <<prompt, classification, chunkArgs, rag_pipeline,
                   initialization_error, reply>>
    /\ UNCHANGED <<question, queryType, holdings, trades, stats, context,
                   error, calls, raised, results, minScore, minChunks, valid>>

ChunkNext == ChunkByFund

SpecChunk == ChunkInit /\ [][ChunkNext]_vars

\* C24: every chunk that chunk_by_fund produces stays within max_tokens,
\* whatever the rows of the fund are, a row that alone is larger than the
\* budget included.
C24_ChunksWithinBudget ==
    pc = "chunk_done" =>
        \A i \in 1..Len(fundChunks) :
            fundChunks[i].tokens <= chunkArgs[1].max_tokens

RECURSIVE RowsOfChunks(_)
RowsOfChunks(cs) ==
    IF cs = <<>> THEN <<>> ELSE Head(cs).rows \o RowsOfChunks(Tail(cs))

\* what the loop does keep: the chunks are the rows of the fund in order,
\* none empty, and the row texts of a chunk of several rows sum to the
\* budget at most
RowSumWithinBudgetUnlessSingle ==
    pc = "chunk_done" =>
        /\ RowsOfChunks(fundChunks) =
              SelectSeq(chunkArgs[1].df,
                        LAMBDA r : r.PortfolioName = chunkArgs[1].fund_name)
        /\ \A i \in 1..Len(fundChunks) :
              /\ fundChunks[i].rows # <<>>
              /\ Len(fundChunks[i].rows) > 1 =>
                    SumTokens(fundChunks[i].rows) <= chunkArgs[1].max_tokens

\* a row larger than the default budget, alone in its chunk
OversizeRowChunk ==
    /\ pc = "chunk_done"
    /\ chunkArgs[1].max_tokens = DEFAULT_MAX_TOKENS
    /\ \E i \in 1..Len(fundChunks) :
          /\ Len(fundChunks[i].rows) = 1
          /\ fundChunks[i].tokens = 510

(***************************************************************************)
(* What the two retrieval entry points return                              *)
(***************************************************************************)
\* C25: retrieve_context and retrieve_and_validate return exactly one of
\* the two: a non-empty context with no error, or no context with a
\* non-empty error message; never both and never neither.
C25_ContextXorError ==
    pc = "rc_done" =>
        \/ context # None /\ context[1] # <<>> /\ error = None
        \/ context = None /\ error # None /\ error[1] # ""

\* retrieve_and_validate returned a context
C25_Witness ==
    /\ pc = "rc_done"
    /\ FromSemanticRetrieval
    /\ context # None
    /\ error = None

\* retrieve_and_validate refused matches that were too few
C25_WitnessError ==
    /\ pc = "rc_done"
    /\ FromSemanticRetrieval
    /\ results # <<>>
    /\ context = None
    /\ error = Some(NO_DATA)

\* indices of the retrieved matches at or above the threshold
RelevantRetrieved ==
    {i \in 1..Len(results) : results[i].score >= MIN_RELEVANCE_SCORE}

\* C26: retrieve_and_validate validates, then deduplicates, then formats:
\* the minimum count is taken over the matches before deduplication, so a
\* context is returned exactly when enough retrieved matches reach the
\* threshold, and a returned context renders at least one chunk and only
\* chunks at or above the threshold, in their retrieved order (possibly
\* fewer of them than the minimum count).
C26_ValidateThenDeduplicate ==
    pc = "rc_done" /\ FromSemanticRetrieval =>
        /\ context # None <=>
              Cardinality(RelevantRetrieved) >= MIN_CHUNKS_REQUIRED
        /\ context # None =>
              /\ Len(context[1]) >= 1
              /\ \A i \in 1..Len(context[1]) :
                    /\ context[1][i].kind \in {"holdings", "trades"}
                    /\ context[1][i].value >= MIN_RELEVANCE_SCORE
              /\ \E ix \in [1..Len(context[1]) -> RelevantRetrieved] :
                    /\ \A i, j \in 1..Len(context[1]) : i < j => ix[i] < ix[j]
                    /\ \A i \in 1..Len(context[1]) :
                          /\ context[1][i].fund = results[ix[i]].fund
                          /\ context[1][i].value = results[ix[i]].score

\* three matches passed validation, one was dropped as a near-duplicate:
\* the context renders two chunks, fewer than the minimum count
C26_Witness ==
    /\ pc = "rc_done"
    /\ FromSemanticRetrieval
    /\ Cardinality(RelevantRetrieved) = MIN_CHUNKS_REQUIRED
    /\ context # None
    /\ Len(context[1]) = 2

(***************************************************************************)
(* What deduplicate_chunks drops                                           *)
(***************************************************************************)
\* C27: deduplicate_chunks returns a selection of its input in input
\* order, and every match it leaves out has an earlier kept match of the
\* same fund with a score less than 0.05 away: a match without such a
\* kept match is never dropped, and no match is dropped against a match
\* of another fund.
C27_OnlyNearDuplicatesDropped ==
    pc = "dedup_done" =>
        \E ix \in SUBSET (1..Len(results)) :
            /\ IsSelection(dedupOut, results, ix)
            /\ \A i \in (1..Len(results)) \ ix :
                  \E k \in ix : k < i /\ NearDuplicates(results[k], results[i])

\* one match dropped against a kept one, and a later match of the same
\* fund, further away, kept
C27_Witness ==
    /\ pc = "dedup_done"
    /\ Len(results) = 4
    /\ Len(dedupOut) = 3
    /\ results[1].fund = "Alpha" /\ results[2].fund = "Beta"
    /\ results[3].fund = "Alpha" /\ results[4].fund = "Alpha"
    /\ dedupOut = <<results[1], results[2], results[4]>>

(***************************************************************************)
(* The result of a query whose retrieval failed                            *)
(***************************************************************************)
\* C28: when retrieval fails HybridRAGPipeline.query returns before it
\* derives the class again: the result has query_type '' and an empty
\* context; 'aggregation' or 'specific' appear only in results whose
\* retrieval succeeded, and every such result has one of the two.
C28_NoTypeOnRetrievalFailure ==
    Hybrid /\ QueryReturned =>
        /\ error # None =>
              /\ result[1].query_type = ""
              /\ result[1].context = <<>>
              /\ result[1].error = error
              /\ Len(SelectSeq(calls, LAMBDA c : c = "classify_query_type")) = 1
        /\ result[1].query_type \in {"aggregation", "specific"} <=> error = None
        /\ error = None =>
              Len(SelectSeq(calls, LAMBDA c : c = "classify_query_type")) = 2

\* a question routed to the aggregate path whose computation failed:
\* the result carries no class
C28_Witness ==
    /\ Hybrid /\ QueryReturned
    /\ classify_query_type(question) = "aggregation"
    /\ error = Some(NO_DATA)
    /\ result[1].query_type = ""
    /\ result[1].context = <<>>

(***************************************************************************)
(* An aggregation question over an empty dataset                           *)
(***************************************************************************)
EmptyDataset == Len(holdings.rows) = 0 /\ Len(trades.rows) = 0

\* the aggregation route over no rows, the report built without an
\* exception
AggregationOverEmptyDataset ==
    /\ Hybrid
    /\ classify_query_type(question) = "aggregation"
    /\ EmptyDataset
    /\ "format_aggregation_context" \notin raised

\* C29: on the aggregation path with both tables empty or absent,
\* retrieve_context returns the placeholder sentence as context with no
\* error, not the no-data error, and query() makes a generation call for
\* the question.
C29_EmptyDatasetStillGenerates ==
    AggregationOverEmptyDataset =>
        /\ pc \in {"rc_done", "q_done"} =>
              context = Some(NO_AGGREGATION_DATA) /\ error = None
        /\ QueryReturned =>
              /\ result[1].error = None
              /\ GenerationCalls = 1

\* C29 as the code has it: the placeholder context and no error are
\* returned, the aggregation prompt is filled with the placeholder, and
\* the generation call is made once if the handler has a client and not
\* at all if it has none.
C29_EmptyDatasetStillGeneratesIfClient ==
    AggregationOverEmptyDataset =>
        /\ pc \in {"rc_done", "q_done"} =>
              context = Some(NO_AGGREGATION_DATA) /\ error = None
        /\ QueryReturned =>
              /\ result[1].error = None
              /\ result[1].context = NO_AGGREGATION_DATA
              /\ result[1].query_type = "aggregation"
              /\ prompt = Some(filled_prompt("AGGREGATION_PROMPT",
                                             NO_AGGREGATION_DATA, question))
              /\ GenerationCalls = (IF client THEN 1 ELSE 0)

\* the placeholder went to the generation service
C29_Witness ==
    /\ AggregationOverEmptyDataset
    /\ QueryReturned
    /\ client
    /\ holdings = EmptyFrame
    /\ context = Some(NO_AGGREGATION_DATA)
    /\ GenerationCalls = 1

\* the same question on a handler without a client: no call
C29_WitnessNoClient ==
    /\ AggregationOverEmptyDataset
    /\ QueryReturned
    /\ ~ client
    /\ context = Some(NO_AGGREGATION_DATA)
    /\ GenerationCalls = 0

(***************************************************************************)
(* app.py: the two globals, the startup event and the two API endpoints.   *)
(* The startup event has no await in it, so it runs as one step.           *)
(***************************************************************************)
PINECONE_FAILED == "Failed to connect to Pinecone. Make sure it's initialized."

\* str(e) of the exceptions the try block of the startup is let raise here
StartupErrors == {
    "[Errno 2] No such file or directory: 'holdings.csv'",
    PINECONE_FAILED,
    "Missing key inputs argument!" }

StartupOutcomes ==
    {[raised |-> FALSE, message |-> ""]}
    \cup {[raised |-> TRUE, message |-> m] : m \in StartupErrors}

\* the try block assigns rag_pipeline as its last statement, the handler
\* assigns initialization_error; each leaves the other global alone
startup_event(globals, outcome) ==
    IF outcome.raised
    THEN [rag_pipeline |-> globals.rag_pipeline,
          initialization_error |-> Some(outcome.message)]
    ELSE [rag_pipeline |-> Some("HybridRAGPipeline"),
          initialization_error |-> globals.initialization_error]

\* GET /api/health
health_check(globals) ==
    IF truthy(globals.initialization_error)
    THEN [endpoint |-> "health", status |-> "error", system_ready |-> FALSE]
    ELSE IF globals.rag_pipeline = None
    THEN [endpoint |-> "health", status |-> "initializing", system_ready |-> FALSE]
    ELSE [endpoint |-> "health", status |-> "healthy", system_ready |-> TRUE]

\* a gate that looks at the pipeline global alone
query_gate_pipeline_only(globals) ==
    IF globals.rag_pipeline = None THEN Some(503) ELSE None

\* the two rejections at the head of POST /api/query: the status code of
\* the HTTPException raised, None when the request goes on
query_gate(globals) ==
    IF truthy(globals.initialization_error) THEN Some(500)
    ELSE IF globals.rag_pipeline = None THEN Some(503)
    ELSE None

\* re.sub(r'[\x00-\x08\x0B-\x0C\x0E-\x1F\x7F-\x9F]', '', ...)
second_pass(s) ==
    SelectSeq(s, LAMBDA c :
        ord(c) \notin (0..8) \cup (11..12) \cup (14..31) \cup (127..159))

\* .encode('utf-8', errors='ignore').decode('utf-8', errors='ignore'):
\* lone surrogates are lost
third_pass(s) == SelectSeq(s, LAMBDA c : ord(c) \notin 55296..57343)

ERROR_PROCESSING ==
    <<"E","r","r","o","r"," ","p","r","o","c","e","s","s","i","n","g"," ",
      "q","u","e","r","y",":"," ">>

\* the try block of the endpoint and its handler: the QueryResponse
query_response(outcome) ==
    IF outcome.raised
    THEN LET safe_error == sanitize_text_for_json(ERROR_PROCESSING \o outcome.message)
         IN  [endpoint |-> "query", status |-> 200, answer |-> safe_error,
              query_type |-> "error", error |-> Some(safe_error)]
    ELSE [endpoint |-> "query", status |-> 200,
          answer |-> third_pass(second_pass(
                        sanitize_text_for_json(outcome.result.answer))),
          query_type |-> outcome.result.query_type,
          error |-> IF outcome.result.error = None THEN None
                    ELSE Some(chars(outcome.result.error[1]))]

(***************************************************************************)
(* SpecApp: the application from import to a bounded number of requests    *)
(***************************************************************************)
MaxRequests == 2

\* what rag_pipeline.query is let do for a request: return a result of
\* either shape, or raise
PipelineOutcomes ==
    {[raised |-> FALSE, message |-> <<>>,
      result |-> [answer |-> a, context |-> NO_AGGREGATION_DATA,
                  query_type |-> t, error |-> None]] :
        a \in GeneratedTexts \ {<<>>}, t \in {"aggregation", "specific"}}
    \cup {[raised |-> FALSE, message |-> <<>>,
           result |-> short_circuit(Some(NO_DATA))]}
    \cup {[raised |-> TRUE, message |-> OtherMessage,
           result |-> short_circuit(Some(NO_DATA))]}

Globals ==
    [rag_pipeline |-> rag_pipeline, initialization_error |-> initialization_error]

AppInit ==
    /\ pc = "app_created"
    /\ rag_pipeline = None
    /\ initialization_error = None
    /\ reply = None
    /\ question = <<>>
    /\ queryType = ""
    /\ NoData /\ NoRetrieval /\ NoMatches /\ NoGeneration /\ NoTexts
    /\ NoPrompt /\ NoClassification /\ NoChunking

StartupEvent ==
    /\ pc = "app_created"
    /\ \E outcome \in StartupOutcomes :
       \E g \in {startup_event(Globals, outcome)} :
          /\ rag_pipeline' = g.rag_pipeline
          /\ initialization_error' = g.initialization_error
    /\ pc' = "app_started"
    /\ UNCHANGED llmVars
    /\ UNCHANGED <<prompt, classification, chunkArgs, fundChunks, reply>>
    /\ UNCHANGED <<question, queryType, holdings, trades, stats, context,
                   error, calls, raised, results, minScore, minChunks, valid>>

HealthCheck ==
    /\ reply' = Some(health_check(Globals))
    /\ UNCHANGED llmVars
    /\ UNCHANGED <<prompt, classification, chunkArgs, fundChunks,
                   rag_pipeline, initialization_error>>
    /\ UNCHANGED <<pc, question, queryType, holdings, trades, stats, context,
                   error, calls, raised, results, minScore, minChunks, valid>>

QueryEndpoint ==
    /\ Len(calls) < MaxRequests
    /\ \E q \in HybridQuestions, outcome \in PipelineOutcomes :
       \E gate \in {query_gate(Globals)} :
          /\ question' = q
          /\ IF gate # None
             THEN /\ reply' = Some([endpoint |-> "query", status |-> gate[1]])
                  /\ UNCHANGED <<calls, result>>
             ELSE /\ calls' = Append(calls, "rag_pipeline.query")
                  /\ result' = IF outcome.raised THEN None
                                ELSE Some(outcome.result)
                  /\ reply' = Some(query_response(outcome))
    /\ UNCHANGED <<prompt, classification, chunkArgs, fundChunks,
                   rag_pipeline, initialization_error>>
    /\ UNCHANGED <<pc, queryType, holdings, trades, stats, context, error,
                   raised, results, minScore, minChunks, valid, pipeline,
                   client, response, dedupOut, text, sanitized>>

AppNext == StartupEvent \/ HealthCheck \/ QueryEndpoint

SpecApp == AppInit /\ [][AppNext]_vars

Started == pc = "app_started"

\* the pipeline is set and no initialisation error is recorded
SystemReady == rag_pipeline # None /\ initialization_error = None

C30_WitnessRejected ==
    /\ Started
    /\ initialization_error = Some(PINECONE_FAILED)
    /\ rag_pipeline = None
    /\ calls = <<>>
    /\ reply # None
    /\ reply[1].endpoint = "query"
    /\ reply[1].status = 500

====
